---- MODULE Spec2Model ----
(***************************************************************************)
(* Chess rules engine (src/src/chess_board.rs and its piece, move and      *)
(* castling-rights modules): the ChessBoard resource, the three systems    *)
(* that mutate it (game_end_checker, reset_board_state, make_move) and the *)
(* legality algorithms they call.                                          *)
(***************************************************************************)
EXTENDS Integers, Sequences, FiniteSets, TLC

BOARD_SIZE == 8

\* Largest number of accepted moves explored between two resets.
MaxMoves == 2

\* Largest coordinate handed to BoardPosition::new.
MaxCoordinate == 9

None == "None"

\* Option<Box<dyn Piece>>::None
NoPiece == [type |-> None]

is_none(cell) == cell.type = None

is_some(cell) == cell.type # None

(***************************************************************************)
(* Integer helpers of the Rust standard library used by the code.          *)
(***************************************************************************)
signum(x) == IF x > 0 THEN 1 ELSE IF x < 0 THEN -1 ELSE 0

clamp(x, lo, hi) == IF x < lo THEN lo ELSE IF x > hi THEN hi ELSE x

abs_diff(a, b) == IF a >= b THEN a - b ELSE b - a

contains(s, e) == \E i \in DOMAIN s : s[i] = e

(***************************************************************************)
(* PieceColor, BoardPosition                                               *)
(***************************************************************************)
opposite(color) == IF color = "White" THEN "Black" ELSE "White"

BoardPosition_new(rank, file) == [rank |-> rank, file |-> file]

\* BoardPosition::new refusing only the coordinates above BOARD_SIZE.
BoardPosition_new_panics_above(rank, file) == rank > BOARD_SIZE \/ file > BOARD_SIZE

\* The test that makes BoardPosition::new panic instead of returning.
BoardPosition_new_panics(rank, file) == rank >= BOARD_SIZE \/ file >= BOARD_SIZE

\* The squares in the order of the loops `for rank in 0..8 { for file in 0..8`.
ScanOrder ==
    [i \in 1..(BOARD_SIZE * BOARD_SIZE) |->
        BoardPosition_new((i - 1) \div BOARD_SIZE, (i - 1) % BOARD_SIZE)]

(***************************************************************************)
(* Pieces: one record per piece, a tag for the variant.                    *)
(***************************************************************************)
new_piece(piece_color, piece_type, position) ==
    [type |-> piece_type, color |-> piece_color,
     position |-> position, starting_position |-> position]

set_position(piece, new_position) == [piece EXCEPT !.position = new_position]

\* Piece::get_moves of each variant runs the loops
\* `for rank in 0..8 { for file in 0..8 { if <rule> { moves.push(..) } } }`;
\* the result depends on the piece's position alone, so it is tabulated per
\* position (the rule is the body of each table).
KingAdjacent ==
    [rank \in 0..7 |-> [file \in 0..7 |->
        SelectSeq(ScanOrder, LAMBDA q :
            \/ (q.rank = rank /\ abs_diff(file, q.file) = 1)
            \/ (q.file = file /\ abs_diff(rank, q.rank) = 1)
            \/ (abs_diff(file, q.file) = 1 /\ abs_diff(rank, q.rank) = 1))]]

\* King::get_moves without the two castle destinations.
King_get_moves_adjacent_only(piece) ==
    KingAdjacent[piece.position.rank][piece.position.file]

King_get_moves(piece) ==
    KingAdjacent[piece.position.rank][piece.position.file]
    \o (IF piece.position = piece.starting_position
        THEN (IF piece.position.file < BOARD_SIZE - 2
              THEN <<BoardPosition_new(piece.position.rank, piece.position.file + 2)>>
              ELSE <<>>)
             \o
             (IF piece.position.file > 2
              THEN <<BoardPosition_new(piece.position.rank, piece.position.file - 2)>>
              ELSE <<>>)
        ELSE <<>>)

QueenMoves ==
    [rank \in 0..7 |-> [file \in 0..7 |->
        SelectSeq(ScanOrder, LAMBDA q :
            LET rank_diff == q.rank - rank
                file_diff == q.file - file
            IN  /\ \/ rank_diff = file_diff
                   \/ rank_diff = -file_diff
                   \/ q.rank = rank
                   \/ q.file = file
                /\ (q.rank # rank \/ q.file # file))]]

Queen_get_moves(piece) == QueenMoves[piece.position.rank][piece.position.file]

BishopMoves ==
    [rank \in 0..7 |-> [file \in 0..7 |->
        SelectSeq(ScanOrder, LAMBDA q :
            LET rank_diff == q.rank - rank
                file_diff == q.file - file
            IN  /\ (rank_diff = file_diff \/ rank_diff = -file_diff)
                /\ q.rank # rank)]]

Bishop_get_moves(piece) == BishopMoves[piece.position.rank][piece.position.file]

KnightMoves ==
    [rank \in 0..7 |-> [file \in 0..7 |->
        SelectSeq(ScanOrder, LAMBDA q :
            LET rank_diff == q.rank - rank
                file_diff == q.file - file
            IN  \/ ((rank_diff = 1 \/ rank_diff = -1)
                    /\ (file_diff = 2 \/ file_diff = -2))
                \/ ((file_diff = 1 \/ file_diff = -1)
                    /\ (rank_diff = 2 \/ rank_diff = -2)))]]

Knight_get_moves(piece) == KnightMoves[piece.position.rank][piece.position.file]

RookMoves ==
    [rank \in 0..7 |-> [file \in 0..7 |->
        SelectSeq(ScanOrder, LAMBDA q :
            /\ (q.rank = rank \/ q.file = file)
            /\ (q.rank # rank \/ q.file # file))]]

Rook_get_moves(piece) == RookMoves[piece.position.rank][piece.position.file]

move_direction(piece) == IF piece.color = "White" THEN -1 ELSE 1

Pawn_get_moves(piece, include_captures) ==
    <<BoardPosition_new(
        clamp(piece.position.rank + move_direction(piece), 0, 7),
        piece.position.file)>>
    \o (IF \/ (piece.color = "White" /\ piece.position.rank = 6)
           \/ (piece.color = "Black" /\ piece.position.rank = 1)
        THEN <<BoardPosition_new(
                 clamp(piece.position.rank + 2 * move_direction(piece), 0, 7),
                 piece.position.file)>>
        ELSE <<>>)
    \o (IF include_captures
        THEN <<BoardPosition_new(
                 clamp(piece.position.rank + move_direction(piece), 0, 7),
                 clamp(piece.position.file + 1, 0, 7)),
               BoardPosition_new(
                 clamp(piece.position.rank + move_direction(piece), 0, 7),
                 clamp(piece.position.file - 1, 0, 7))>>
        ELSE <<>>)

\* Pawn::valid_capture taking the square straight ahead as well.
Pawn_valid_capture_straight(piece, end_position) ==
    /\ 0 <= piece.position.rank + move_direction(piece)
    /\ piece.position.rank + move_direction(piece) < 8
    /\ piece.position.rank + move_direction(piece) = end_position.rank
    /\ \/ end_position.file = piece.position.file
       \/ (piece.position.file > 0 /\ end_position.file = piece.position.file - 1)
       \/ (piece.position.file < 7 /\ end_position.file = piece.position.file + 1)

Pawn_valid_capture(piece, end_position) ==
    /\ 0 <= piece.position.rank + move_direction(piece)
    /\ piece.position.rank + move_direction(piece) < 8
    /\ piece.position.rank + move_direction(piece) = end_position.rank
    /\ \/ (piece.position.file > 0 /\ end_position.file = piece.position.file - 1)
       \/ (piece.position.file < 7 /\ end_position.file = piece.position.file + 1)

\* Piece::get_moves, dispatched on the variant.
get_moves(piece, include_captures) ==
    CASE piece.type = "King" -> King_get_moves(piece)
      [] piece.type = "Queen" -> Queen_get_moves(piece)
      [] piece.type = "Bishop" -> Bishop_get_moves(piece)
      [] piece.type = "Knight" -> Knight_get_moves(piece)
      [] piece.type = "Rook" -> Rook_get_moves(piece)
      [] piece.type = "Pawn" -> Pawn_get_moves(piece, include_captures)

\* Piece::valid_move: membership in get_moves(false).
piece_valid_move(piece, end_position) ==
    contains(get_moves(piece, FALSE), end_position)

\* Piece::valid_capture: the pawn overrides it, the others defer to valid_move.
piece_valid_capture(piece, end_position) ==
    IF piece.type = "Pawn"
    THEN Pawn_valid_capture(piece, end_position)
    ELSE piece_valid_move(piece, end_position)

\* is_sliding with the Rook answering false as the Knight does.
is_sliding_rook_jumps(piece) == piece.type \notin {"Knight", "Rook"}

is_sliding(piece) == piece.type # "Knight"

(***************************************************************************)
(* CastlingRights: white / black are [bool; 2], index 0 the king side and  *)
(* index 1 the queen side (here 1 and 2).                                  *)
(***************************************************************************)
CastlingRights_default == [white |-> <<FALSE, FALSE>>, black |-> <<FALSE, FALSE>>]

from_fen_string(fen) ==
    [white |-> <<contains(fen, "K"), contains(fen, "Q")>>,
     black |-> <<contains(fen, "k"), contains(fen, "q")>>]

\* valid_castle_direction with the two sides' indices exchanged.
valid_castle_direction_swapped(rights_of, color, direction) ==
    LET rights == IF color = "White" THEN rights_of.white ELSE rights_of.black
    IN  CASE signum(direction) = 1 -> rights[2]
          [] signum(direction) = -1 -> rights[1]
          [] signum(direction) = 0 -> FALSE

valid_castle_direction(rights_of, color, direction) ==
    LET rights == IF color = "White" THEN rights_of.white ELSE rights_of.black
    IN  CASE signum(direction) = 1 -> rights[1]
          [] signum(direction) = -1 -> rights[2]
          [] signum(direction) = 0 -> FALSE

\* update_after_move writing `true` where a rook move revokes a right.
update_after_move_granting(rights_of, piece_move) ==
    LET rights == IF piece_move.piece_color = "White"
                  THEN rights_of.white ELSE rights_of.black
        updated ==
            IF piece_move.piece_type = "King"
            THEN <<FALSE, FALSE>>
            ELSE IF piece_move.piece_type = "Rook"
                 THEN IF piece_move.from.file = 0
                      THEN [rights EXCEPT ![2] = TRUE]
                      ELSE IF piece_move.from.file = 7
                           THEN [rights EXCEPT ![1] = TRUE]
                           ELSE rights
                 ELSE rights
    IN  IF piece_move.piece_color = "White"
        THEN [rights_of EXCEPT !.white = updated]
        ELSE [rights_of EXCEPT !.black = updated]

\* update_after_move with the two rook files taken for one another.
update_after_move_swapped_files(rights_of, piece_move) ==
    LET rights == IF piece_move.piece_color = "White"
                  THEN rights_of.white ELSE rights_of.black
        updated ==
            IF piece_move.piece_type = "King"
            THEN <<FALSE, FALSE>>
            ELSE IF piece_move.piece_type = "Rook"
                 THEN IF piece_move.from.file = 7
                      THEN [rights EXCEPT ![2] = FALSE]
                      ELSE IF piece_move.from.file = 0
                           THEN [rights EXCEPT ![1] = FALSE]
                           ELSE rights
                 ELSE rights
    IN  IF piece_move.piece_color = "White"
        THEN [rights_of EXCEPT !.white = updated]
        ELSE [rights_of EXCEPT !.black = updated]

update_after_move(rights_of, piece_move) ==
    LET rights == IF piece_move.piece_color = "White"
                  THEN rights_of.white ELSE rights_of.black
        updated ==
            IF piece_move.piece_type = "King"
            THEN <<FALSE, FALSE>>
            ELSE IF piece_move.piece_type = "Rook"
                 THEN IF piece_move.from.file = 0
                      THEN [rights EXCEPT ![2] = FALSE]
                      ELSE IF piece_move.from.file = 7
                           THEN [rights EXCEPT ![1] = FALSE]
                           ELSE rights
                 ELSE rights
    IN  IF piece_move.piece_color = "White"
        THEN [rights_of EXCEPT !.white = updated]
        ELSE [rights_of EXCEPT !.black = updated]

(***************************************************************************)
(* ChessBoard: the resource, as one record.                                *)
(***************************************************************************)
empty_board ==
    [board |-> [rank \in 0..(BOARD_SIZE - 1) |-> [file \in 0..(BOARD_SIZE - 1) |-> NoPiece]],
     active_color |-> None,
     past_moves |-> <<>>,
     move_number |-> 1,
     castling_rights |-> CastlingRights_default,
     winner |-> None,
     game_end_status |-> None]

get_piece_type(self, position) == self.board[position.rank][position.file].type

get_piece_color(self, position) ==
    IF is_none(self.board[position.rank][position.file])
    THEN None
    ELSE self.board[position.rank][position.file].color

\* Move::from_board; the caller has a piece on `from` ("No piece found." otherwise).
from_board(from, to, self) ==
    [from |-> from,
     to |-> to,
     piece_type |-> get_piece_type(self, from),
     piece_color |-> get_piece_color(self, from),
     is_capture |-> get_piece_type(self, to) # None,
     is_castle |-> get_piece_type(self, from) = "King"
                   /\ abs_diff(from.file, to.file) = 2]

\* move_piece leaving the piece on its source square as well.
move_piece_leaves_source(self, from, to) ==
    [self EXCEPT
        !.board[to.rank][to.file] =
            set_position(self.board[from.rank][from.file], to)]

\* move_piece copying the piece to its new cell without set_position.
move_piece_keeps_position(self, from, to) ==
    [self EXCEPT
        !.board[to.rank][to.file] = self.board[from.rank][from.file],
        !.board[from.rank][from.file] = NoPiece]

\* ChessBoard::move_piece on an occupied source square.
move_piece(self, from, to) ==
    [self EXCEPT
        !.board[to.rank][to.file] =
            set_position(self.board[from.rank][from.file], to),
        !.board[from.rank][from.file] = NoPiece]

\* move_piece taking a piece on the source square for the reason to panic.
move_piece_panics_when_occupied(self, from) ==
    is_some(self.board[from.rank][from.file])

\* The condition under which move_piece panics "No piece at start location.".
move_piece_panics(self, from) == is_none(self.board[from.rank][from.file])

RECURSIVE walk_between(_, _, _, _, _, _)
walk_between(self, rank, file, rank_step, file_step, end) ==
    IF rank # end.rank \/ file # end.file
    THEN IF is_some(self.board[rank][file])
         THEN FALSE
         ELSE walk_between(self, rank + rank_step, file + file_step,
                           rank_step, file_step, end)
    ELSE TRUE

no_piece_between_squares(self, start, end) ==
    walk_between(self,
                 start.rank + signum(end.rank - start.rank),
                 start.file + signum(end.file - start.file),
                 signum(end.rank - start.rank),
                 signum(end.file - start.file),
                 end)

\* The square make_move and valid_move take for the castling rook's corner.
castle_rook_from(piece_move) ==
    BoardPosition_new(
        piece_move.from.rank,
        clamp(piece_move.from.file
                + (piece_move.to.file - piece_move.from.file) * BOARD_SIZE,
              1, BOARD_SIZE - 1))

castle_rook_to(piece_move) ==
    BoardPosition_new(
        piece_move.to.rank,
        piece_move.to.file - signum(piece_move.to.file - piece_move.from.file))

RECURSIVE valid_move(_, _, _, _)
RECURSIVE get_valid_moves(_, _, _)
RECURSIVE in_check(_, _)

\* The first loop of in_check: the first king of `color` in scan order,
\* (0, 0) when there is none.
find_king(self, color) ==
    LET found == SelectSeq(ScanOrder, LAMBDA q :
                    /\ is_some(self.board[q.rank][q.file])
                    /\ self.board[q.rank][q.file].type = "King"
                    /\ self.board[q.rank][q.file].color = color)
    IN  IF found = <<>> THEN BoardPosition_new(0, 0) ELSE found[1]

\* valid_move letting a king castle out of check: the castle branch without
\* its test of the current position.
valid_move_castle_out_of_check(self, piece_move, active_color, check_for_check) ==
    IF piece_move.is_castle /\ piece_move.is_capture
    THEN FALSE
    ELSE IF is_none(self.board[piece_move.from.rank][piece_move.from.file])
    THEN FALSE
    ELSE
    LET piece == self.board[piece_move.from.rank][piece_move.from.file]
        file_move_direction == piece_move.to.file - piece_move.from.file
    IN  /\ active_color # None
        /\ piece.color = active_color
        /\ IF get_piece_color(self, piece_move.to) # None
           THEN IF get_piece_color(self, piece_move.to) = piece.color
                THEN FALSE
                ELSE piece_valid_capture(piece, piece_move.to)
           ELSE piece_valid_move(piece, piece_move.to)
        /\ (~is_sliding(piece)
            \/ no_piece_between_squares(self, piece_move.from, piece_move.to))
        /\ (~check_for_check
            \/ LET test_board == move_piece(self, piece_move.from, piece_move.to)
               IN  ~in_check(test_board, active_color))
        /\ (~check_for_check \/ ~piece_move.is_castle
            \/ (/\ valid_castle_direction(self.castling_rights, active_color,
                                          file_move_direction)
                /\ no_piece_between_squares(self, piece_move.from,
                                            castle_rook_from(piece_move))
                /\ LET test_board == move_piece(self, piece_move.from, piece_move.to)
                   IN  ~in_check(test_board, active_color)))

\* valid_move treating a friendly piece on the destination as an enemy one.
valid_move_captures_own(self, piece_move, active_color, check_for_check) ==
    IF piece_move.is_castle /\ piece_move.is_capture
    THEN FALSE
    ELSE IF is_none(self.board[piece_move.from.rank][piece_move.from.file])
    THEN FALSE
    ELSE
    LET piece == self.board[piece_move.from.rank][piece_move.from.file]
        file_move_direction == piece_move.to.file - piece_move.from.file
    IN  /\ active_color # None
        /\ piece.color = active_color
        /\ IF get_piece_color(self, piece_move.to) # None
           THEN piece_valid_capture(piece, piece_move.to)
           ELSE piece_valid_move(piece, piece_move.to)
        /\ (~is_sliding(piece)
            \/ no_piece_between_squares(self, piece_move.from, piece_move.to))
        /\ (~check_for_check
            \/ LET test_board == move_piece(self, piece_move.from, piece_move.to)
               IN  ~in_check(test_board, active_color))
        /\ (~check_for_check \/ ~piece_move.is_castle
            \/ (/\ valid_castle_direction(self.castling_rights, active_color,
                                          file_move_direction)
                /\ no_piece_between_squares(self, piece_move.from,
                                            castle_rook_from(piece_move))
                /\ ~in_check(self, active_color)
                /\ LET test_board == move_piece(self, piece_move.from, piece_move.to)
                   IN  ~in_check(test_board, active_color)))

valid_move(self, piece_move, active_color, check_for_check) ==
    IF piece_move.is_castle /\ piece_move.is_capture
    THEN FALSE
    ELSE IF is_none(self.board[piece_move.from.rank][piece_move.from.file])
    THEN FALSE
    ELSE
    LET piece == self.board[piece_move.from.rank][piece_move.from.file]
        file_move_direction == piece_move.to.file - piece_move.from.file
    IN  /\ active_color # None
        /\ piece.color = active_color
        /\ IF get_piece_color(self, piece_move.to) # None
           THEN IF get_piece_color(self, piece_move.to) = piece.color
                THEN FALSE
                ELSE piece_valid_capture(piece, piece_move.to)
           ELSE piece_valid_move(piece, piece_move.to)
        /\ (~is_sliding(piece)
            \/ no_piece_between_squares(self, piece_move.from, piece_move.to))
        /\ (~check_for_check
            \/ LET test_board == move_piece(self, piece_move.from, piece_move.to)
               IN  ~in_check(test_board, active_color))
        /\ (~check_for_check \/ ~piece_move.is_castle
            \/ (/\ valid_castle_direction(self.castling_rights, active_color,
                                          file_move_direction)
                /\ no_piece_between_squares(self, piece_move.from,
                                            castle_rook_from(piece_move))
                /\ ~in_check(self, active_color)
                /\ LET test_board == move_piece(self, piece_move.from, piece_move.to)
                   IN  ~in_check(test_board, active_color)))

\* valid_moves_from asking the piece for its moves without the captures.
valid_moves_from_without_captures(self, position, active_color, check_for_check) ==
    LET piece == self.board[position.rank][position.file]
        piece_moves == get_moves(piece, FALSE)
        candidates == [i \in DOMAIN piece_moves |->
                          from_board(position, piece_moves[i], self)]
    IN  SelectSeq(candidates, LAMBDA piece_move :
            valid_move(self, piece_move, active_color, check_for_check))

\* The moves of the piece on `position` that valid_move accepts, in get_moves order.
valid_moves_from(self, position, active_color, check_for_check) ==
    LET piece == self.board[position.rank][position.file]
        piece_moves == get_moves(piece, TRUE)
        candidates == [i \in DOMAIN piece_moves |->
                          from_board(position, piece_moves[i], self)]
    IN  SelectSeq(candidates, LAMBDA piece_move :
            valid_move(self, piece_move, active_color, check_for_check))

\* The body of the two loops for one square.
square_valid_moves(self, rank, file, active_color, check_for_check) ==
    IF is_some(self.board[rank][file])
    THEN valid_moves_from(self, BoardPosition_new(rank, file),
                          active_color, check_for_check)
    ELSE <<>>

\* The sequences seqs[lo], ..., seqs[hi] appended to one another in index
\* order, as the loops push onto `moves`.
RECURSIVE concat(_, _, _)
concat(seqs, lo, hi) ==
    IF lo = hi
    THEN seqs[lo]
    ELSE LET mid == (lo + hi) \div 2
         IN  concat(seqs, lo, mid) \o concat(seqs, mid + 1, hi)

\* `for file in 0..BOARD_SIZE`, for one rank.
rank_valid_moves(self, rank, active_color, check_for_check) ==
    concat([file \in 0..(BOARD_SIZE - 1) |->
               square_valid_moves(self, rank, file, active_color, check_for_check)],
           0, BOARD_SIZE - 1)

\* `for rank in 0..BOARD_SIZE`.
get_valid_moves(self, active_color, check_for_check) ==
    concat([rank \in 0..(BOARD_SIZE - 1) |->
               rank_valid_moves(self, rank, active_color, check_for_check)],
           0, BOARD_SIZE - 1)

(***************************************************************************)
(* The calls valid_move and in_check make to one another, in the order of   *)
(* the short-circuit evaluation of valid_move's conjunction.                *)
(***************************************************************************)
\* valid_move gets as far as its check_for_check clauses: no early return and
\* the colour, occupancy and sliding tests have passed.
reaches_check_clauses(self, piece_move, active_color) ==
    /\ ~(piece_move.is_castle /\ piece_move.is_capture)
    /\ is_some(self.board[piece_move.from.rank][piece_move.from.file])
    /\ valid_move(self, piece_move, active_color, FALSE)

\* valid_move_in_check_calls running its check clauses whatever
\* check_for_check is.
valid_move_in_check_calls_unguarded(self, piece_move, active_color, check_for_check) ==
    IF ~reaches_check_clauses(self, piece_move, active_color)
    THEN <<>>
    ELSE LET test_board == move_piece(self, piece_move.from, piece_move.to)
         IN  <<[board |-> test_board, is_clone |-> TRUE]>>

\* The boards valid_move hands to in_check, one record per call: the clone
\* with the move applied, then for a castle whose right and path tests pass
\* the board itself and the clone once more.
valid_move_in_check_calls(self, piece_move, active_color, check_for_check) ==
    IF ~check_for_check \/ ~reaches_check_clauses(self, piece_move, active_color)
    THEN <<>>
    ELSE LET test_board == move_piece(self, piece_move.from, piece_move.to)
         IN  <<[board |-> test_board, is_clone |-> TRUE]>>
             \o (IF \/ in_check(test_board, active_color)
                    \/ ~piece_move.is_castle
                    \/ ~valid_castle_direction(self.castling_rights, active_color,
                                               piece_move.to.file - piece_move.from.file)
                    \/ ~no_piece_between_squares(self, piece_move.from,
                                                 castle_rook_from(piece_move))
                 THEN <<>>
                 ELSE <<[board |-> self, is_clone |-> FALSE]>>
                      \o (IF in_check(self, active_color)
                          THEN <<>>
                          ELSE <<[board |-> test_board, is_clone |-> TRUE]>>))

\* valid_move gets as far as its sliding test: no early return and the
\* colour and occupancy tests have passed.
reaches_sliding_test(self, piece_move, active_color) ==
    /\ ~(piece_move.is_castle /\ piece_move.is_capture)
    /\ is_some(self.board[piece_move.from.rank][piece_move.from.file])
    /\ active_color # None
    /\ self.board[piece_move.from.rank][piece_move.from.file].color = active_color
    /\ IF get_piece_color(self, piece_move.to) # None
       THEN /\ get_piece_color(self, piece_move.to) # active_color
            /\ piece_valid_capture(
                   self.board[piece_move.from.rank][piece_move.from.file],
                   piece_move.to)
       ELSE piece_valid_move(
                self.board[piece_move.from.rank][piece_move.from.file],
                piece_move.to)

\* valid_move_walks with the sliding test put before the colour and
\* occupancy tests.
valid_move_walks_before_geometry(self, piece_move, active_color, check_for_check) ==
    IF \/ piece_move.is_castle /\ piece_move.is_capture
       \/ is_none(self.board[piece_move.from.rank][piece_move.from.file])
    THEN <<>>
    ELSE IF is_sliding(self.board[piece_move.from.rank][piece_move.from.file])
    THEN <<[start |-> piece_move.from, end |-> piece_move.to]>>
    ELSE <<>>

\* The pairs of squares valid_move hands to no_piece_between_squares: the
\* sliding test, then the king-to-rook test of the castle clause.
valid_move_walks(self, piece_move, active_color, check_for_check) ==
    IF ~reaches_sliding_test(self, piece_move, active_color)
    THEN <<>>
    ELSE (IF is_sliding(self.board[piece_move.from.rank][piece_move.from.file])
          THEN <<[start |-> piece_move.from, end |-> piece_move.to]>>
          ELSE <<>>)
         \o (IF /\ check_for_check
                /\ piece_move.is_castle
                /\ valid_move(self, [piece_move EXCEPT !.is_castle = FALSE],
                              active_color, TRUE)
                /\ valid_castle_direction(self.castling_rights, active_color,
                                          piece_move.to.file - piece_move.from.file)
             THEN <<[start |-> piece_move.from,
                     end |-> castle_rook_from(piece_move)]>>
             ELSE <<>>)

\* The squares the loop of no_piece_between_squares indexes on an empty
\* board; it ends on the first index off the grid (a panic).
RECURSIVE walk_inspected(_, _, _, _, _)
walk_inspected(rank, file, rank_step, file_step, end) ==
    IF rank = end.rank /\ file = end.file
    THEN <<>>
    ELSE IF rank \notin 0..(BOARD_SIZE - 1) \/ file \notin 0..(BOARD_SIZE - 1)
    THEN <<[rank |-> rank, file |-> file]>>
    ELSE <<[rank |-> rank, file |-> file]>>
         \o walk_inspected(rank + rank_step, file + file_step,
                           rank_step, file_step, end)

no_piece_between_squares_inspected(start, end) ==
    walk_inspected(start.rank + signum(end.rank - start.rank),
                   start.file + signum(end.file - start.file),
                   signum(end.rank - start.rank),
                   signum(end.file - start.file),
                   end)

\* The calls of valid_move that in_check makes through get_valid_moves.
in_check_valid_move_calls(self, color) ==
    UNION {{[piece_move |-> from_board(ScanOrder[i], to, self),
             active_color |-> opposite(color),
             check_for_check |-> FALSE] :
                to \in {get_moves(self.board[ScanOrder[i].rank][ScanOrder[i].file],
                                  TRUE)[k] :
                          k \in DOMAIN get_moves(
                              self.board[ScanOrder[i].rank][ScanOrder[i].file], TRUE)}} :
           i \in {j \in DOMAIN ScanOrder :
                    is_some(self.board[ScanOrder[j].rank][ScanOrder[j].file])}}

\* in_check looking through the moves of `color` itself, not its opponent's.
in_check_same_color(self, color) ==
    LET king_location == find_king(self, color)
        moves == get_valid_moves(self, color, FALSE)
    IN  \E i \in DOMAIN moves : moves[i].to = king_location

in_check(self, color) ==
    LET king_location == find_king(self, color)
        moves == get_valid_moves(self, opposite(color), FALSE)
    IN  \E i \in DOMAIN moves : moves[i].to = king_location

(***************************************************************************)
(* ChessBoard::from_fen.  A Fen carries the placement field split at '/'   *)
(* (a sequence of rank strings, each a sequence of symbols), the active    *)
(* colour field, the castling field and the move number.                   *)
(***************************************************************************)
Digits9 == <<"0", "1", "2", "3", "4", "5", "6", "7", "8">>

is_digit(symbol) == contains(Digits9, symbol)

to_digit(symbol) == (CHOOSE i \in DOMAIN Digits9 : Digits9[i] = symbol) - 1

LowerLetters == <<"p", "n", "b", "r", "q", "k">>

UpperLetters == <<"P", "N", "B", "R", "Q", "K">>

is_uppercase(symbol) == contains(UpperLetters, symbol)

to_uppercase(symbol) ==
    IF contains(LowerLetters, symbol)
    THEN UpperLetters[CHOOSE i \in DOMAIN LowerLetters : LowerLetters[i] = symbol]
    ELSE symbol

symbol_piece_type(symbol) ==
    CASE to_uppercase(symbol) = "P" -> "Pawn"
      [] to_uppercase(symbol) = "N" -> "Knight"
      [] to_uppercase(symbol) = "B" -> "Bishop"
      [] to_uppercase(symbol) = "R" -> "Rook"
      [] to_uppercase(symbol) = "Q" -> "Queen"
      [] to_uppercase(symbol) = "K" -> "King"
      [] OTHER -> None

add_piece(self, piece_color, piece_type, position) ==
    [self EXCEPT !.board[position.rank][position.file] =
        new_piece(piece_color, piece_type, position)]

RECURSIVE flatten(_)
flatten(rank_strs) ==
    IF rank_strs = <<>> THEN <<>> ELSE Head(rank_strs) \o flatten(Tail(rank_strs))

\* populate advancing one file for a digit, whatever the digit.
RECURSIVE populate_digit_as_one(_, _, _, _)
populate_digit_as_one(self, symbols, rank, file) ==
    IF symbols = <<>>
    THEN self
    ELSE LET symbol == Head(symbols)
             placed == IF is_digit(symbol)
                       THEN self
                       ELSE add_piece(self,
                                      IF is_uppercase(symbol) THEN "White" ELSE "Black",
                                      symbol_piece_type(symbol),
                                      BoardPosition_new(rank, file))
             file_after == file + 1
         IN  IF file_after >= 8
             THEN populate_digit_as_one(placed, Tail(symbols), rank + 1, 0)
             ELSE populate_digit_as_one(placed, Tail(symbols), rank, file_after)

\* The two nested loops of from_fen over the symbols, with their counters.
RECURSIVE populate(_, _, _, _)
populate(self, symbols, rank, file) ==
    IF symbols = <<>>
    THEN self
    ELSE LET symbol == Head(symbols)
             placed == IF is_digit(symbol)
                       THEN self
                       ELSE add_piece(self,
                                      IF is_uppercase(symbol) THEN "White" ELSE "Black",
                                      symbol_piece_type(symbol),
                                      BoardPosition_new(rank, file))
             file_after == IF is_digit(symbol) THEN file + to_digit(symbol) ELSE file + 1
         IN  IF file_after >= 8
             THEN populate(placed, Tail(symbols), rank + 1, 0)
             ELSE populate(placed, Tail(symbols), rank, file_after)

\* The panic that stops the two loops of from_fen, None when they complete:
\* the symbol match of a letter that names no piece, then BoardPosition::new
\* for a piece placed beyond the last rank.
RECURSIVE populate_panic(_, _, _)
populate_panic(symbols, rank, file) ==
    IF symbols = <<>>
    THEN None
    ELSE LET symbol == Head(symbols)
             file_after == IF is_digit(symbol) THEN file + to_digit(symbol) ELSE file + 1
         IN  IF ~is_digit(symbol) /\ symbol_piece_type(symbol) = None
             THEN "Unrecognised symbol in FEN: " \o symbol
             ELSE IF ~is_digit(symbol) /\ BoardPosition_new_panics(rank, file)
             THEN "Invalid rank or file value: "
                  \o ToString(rank) \o ", " \o ToString(file)
             ELSE IF file_after >= 8
             THEN populate_panic(Tail(symbols), rank + 1, 0)
             ELSE populate_panic(Tail(symbols), rank, file_after)

\* The panic of from_fen on `fen`, None when it returns a board.
from_fen_panic(fen) ==
    LET placement_panic == populate_panic(flatten(fen.piece_placement), 0, 0)
    IN  IF placement_panic # None
        THEN placement_panic
        ELSE IF fen.active_color \notin {"w", "b"}
        THEN "Unrecognised active color in FEN: " \o fen.active_color
        ELSE None

from_fen(fen) ==
    [populate(empty_board, flatten(fen.piece_placement), 0, 0) EXCEPT
        !.active_color = IF fen.active_color = "w" THEN "White" ELSE "Black",
        !.move_number = fen.move_number,
        !.castling_rights = from_fen_string(fen.castling_rights)]

(***************************************************************************)
(* The positions the boards are seeded from.                               *)
(***************************************************************************)
\* FEN "k7/8/8/8/8/8/P6P/R3K2R w KQ - 0 1"
FenCastle ==
    [piece_placement |-> <<
        <<"k", "7">>,
        <<"8">>,
        <<"8">>,
        <<"8">>,
        <<"8">>,
        <<"8">>,
        <<"P", "6", "P">>,
        <<"R", "3", "K", "2", "R">>>>,
     active_color |-> "w",
     castling_rights |-> <<"K", "Q">>,
     move_number |-> 1]

\* FEN "rk6/8/8/8/8/8/8/RN2K3 b Q - 0 1"
FenQueenSide ==
    [piece_placement |-> <<
        <<"r", "k", "6">>,
        <<"8">>,
        <<"8">>,
        <<"8">>,
        <<"8">>,
        <<"8">>,
        <<"8">>,
        <<"R", "N", "2", "K", "3">>>>,
     active_color |-> "b",
     castling_rights |-> <<"Q">>,
     move_number |-> 1]

\* FEN "7k/8/7K/8/8/8/8/R7 w - - 0 1"
FenMate ==
    [piece_placement |-> <<
        <<"7", "k">>,
        <<"8">>,
        <<"7", "K">>,
        <<"8">>,
        <<"8">>,
        <<"8">>,
        <<"8">>,
        <<"R", "7">>>>,
     active_color |-> "w",
     castling_rights |-> <<"-">>,
     move_number |-> 1]

\* FEN "k7/8/8/8/8/6n1/7P/4K2R w K - 0 1"
FenThroughCheck ==
    [piece_placement |-> <<
        <<"k", "7">>,
        <<"8">>,
        <<"8">>,
        <<"8">>,
        <<"8">>,
        <<"6", "n", "1">>,
        <<"7", "P">>,
        <<"4", "K", "2", "R">>>>,
     active_color |-> "w",
     castling_rights |-> <<"K">>,
     move_number |-> 1]

\* FEN "k3r2R/8/8/8/8/8/8/4K2R w K - 0 7"
FenInCheck ==
    [piece_placement |-> <<
        <<"k", "3", "r", "2", "R">>,
        <<"8">>,
        <<"8">>,
        <<"8">>,
        <<"8">>,
        <<"8">>,
        <<"8">>,
        <<"4", "K", "2", "R">>>>,
     active_color |-> "w",
     castling_rights |-> <<"K">>,
     move_number |-> 7]

\* FEN "2P4k/8/8/8/8/7p/7P/P3K3 w - - 0 1": pawns on an edge file, on a last
\* rank, behind their second rank and face to face.
FenPawns ==
    [piece_placement |-> <<
        <<"2", "P", "4", "k">>,
        <<"8">>,
        <<"8">>,
        <<"8">>,
        <<"8">>,
        <<"7", "p">>,
        <<"7", "P">>,
        <<"P", "3", "K", "3">>>>,
     active_color |-> "w",
     castling_rights |-> <<>>,
     move_number |-> 1]

\* FEN "7k/8/8/8/R7/8/8/R3K3 w Q - 0 1": the king-side rook has wandered to
\* the a-file, the queen-side rook is still on its corner.
FenEdgeRook ==
    [piece_placement |-> <<
        <<"7", "k">>,
        <<"8">>,
        <<"8">>,
        <<"8">>,
        <<"R", "7">>,
        <<"8">>,
        <<"8">>,
        <<"R", "3", "K", "3">>>>,
     active_color |-> "w",
     castling_rights |-> <<"Q">>,
     move_number |-> 1]

\* FEN "1k6/8/8/8/8/8/8/rN2K3 w Q - 0 1": one king each, Black (not to move)
\* not in check, a Black rook behind the knight on White's back rank.
FenBackRankRook ==
    [piece_placement |-> <<
        <<"1", "k", "6">>,
        <<"8">>,
        <<"8">>,
        <<"8">>,
        <<"8">>,
        <<"8">>,
        <<"8">>,
        <<"r", "N", "2", "K", "3">>>>,
     active_color |-> "w",
     castling_rights |-> <<"Q">>,
     move_number |-> 1]

Fens ==
    {FenCastle, FenQueenSide, FenMate, FenThroughCheck, FenInCheck, FenPawns,
     FenEdgeRook, FenBackRankRook}

(***************************************************************************)
(* State                                                                   *)
(***************************************************************************)
VARIABLES
    chess_board,   \* the ChessBoard resource
    setup_fen,     \* the Fen the board was last built from
    move_events,   \* PieceMoveEvents sent and not yet read by game_end_checker
    stage,         \* the schedule stage about to run
    outcome,       \* what the last system to act in this frame did: a request
                   \* accepted or rejected or a panic (make_move), a reset
    panic          \* the panic message once a system has panicked

vars == <<chess_board, setup_fen, move_events, stage, outcome, panic>>

Occupied(self) == {i \in DOMAIN ScanOrder :
                      is_some(self.board[ScanOrder[i].rank][ScanOrder[i].file])}

Init ==
    /\ setup_fen \in Fens
    /\ chess_board = from_fen(setup_fen)
    /\ move_events = <<>>
    /\ stage = "PostUpdate"
    /\ outcome = "none"
    /\ panic = None

(***************************************************************************)
(* game_end_checker (PreUpdate): one pass of its body per PieceMoveEvent.  *)
(***************************************************************************)
\* game_end_check naming the side without moves as the winner.
game_end_check_wrong_winner(self) ==
    IF /\ self.active_color # None
       /\ get_valid_moves(self, self.active_color, TRUE) = <<>>
    THEN IF in_check(self, self.active_color)
         THEN [self EXCEPT !.game_end_status = "Checkmate",
                           !.winner = self.active_color,
                           !.active_color = None]
         ELSE [self EXCEPT !.game_end_status = "Stalemate",
                           !.active_color = None]
    ELSE self

\* game_end_check leaving the active colour in place when the game ends.
game_end_check_keeps_color(self) ==
    IF /\ self.active_color # None
       /\ get_valid_moves(self, self.active_color, TRUE) = <<>>
    THEN IF in_check(self, self.active_color)
         THEN [self EXCEPT !.game_end_status = "Checkmate",
                           !.winner = opposite(self.active_color)]
         ELSE [self EXCEPT !.game_end_status = "Stalemate"]
    ELSE self

\* game_end_check with the two results exchanged: Stalemate for a side in
\* check, Checkmate for a side that is not.
game_end_check_swapped_status(self) ==
    IF /\ self.active_color # None
       /\ get_valid_moves(self, self.active_color, TRUE) = <<>>
    THEN IF ~in_check(self, self.active_color)
         THEN [self EXCEPT !.game_end_status = "Checkmate",
                           !.winner = opposite(self.active_color),
                           !.active_color = None]
         ELSE [self EXCEPT !.game_end_status = "Stalemate",
                           !.active_color = None]
    ELSE self

game_end_check(self) ==
    IF /\ self.active_color # None
       /\ get_valid_moves(self, self.active_color, TRUE) = <<>>
    THEN IF in_check(self, self.active_color)
         THEN [self EXCEPT !.game_end_status = "Checkmate",
                           !.winner = opposite(self.active_color),
                           !.active_color = None]
         ELSE [self EXCEPT !.game_end_status = "Stalemate",
                           !.active_color = None]
    ELSE self

\* game_end_checker reading its events without looking at the board.
game_end_loop_ignores_board(self, events) == self

RECURSIVE game_end_loop(_, _)
game_end_loop(self, events) ==
    IF events = <<>>
    THEN self
    ELSE game_end_loop(game_end_check(self), Tail(events))

game_end_checker ==
    /\ stage = "PreUpdate"
    /\ panic = None
    /\ chess_board' = game_end_loop(chess_board, move_events)
    /\ move_events' = <<>>
    /\ stage' = "Update"
    /\ UNCHANGED <<setup_fen, outcome, panic>>

(***************************************************************************)
(* reset_board_state (Update): replaces the board for each ResetBoardEvent *)
(***************************************************************************)
\* reset_loop rebuilding the grid, the turn, the rights and the move number
\* from the Fen while the game's record and result stay as they were.
reset_loop_keeps_record(self, setup_events) ==
    IF setup_events = <<>>
    THEN self
    ELSE [from_fen(setup_events[Len(setup_events)]) EXCEPT
            !.past_moves = self.past_moves,
            !.winner = self.winner,
            !.game_end_status = self.game_end_status]

RECURSIVE reset_loop(_, _)
reset_loop(self, setup_events) ==
    IF setup_events = <<>> \/ from_fen_panic(Head(setup_events)) # None
    THEN self
    ELSE reset_loop(from_fen(Head(setup_events)), Tail(setup_events))

\* The Fen of the last event the loop built a board from, `fen` when none.
RECURSIVE last_built(_, _)
last_built(fen, setup_events) ==
    IF setup_events = <<>> \/ from_fen_panic(Head(setup_events)) # None
    THEN fen
    ELSE last_built(Head(setup_events), Tail(setup_events))

\* The panic that ends the loop, None when it reads every event.
RECURSIVE reset_panic(_)
reset_panic(setup_events) ==
    IF setup_events = <<>>
    THEN None
    ELSE IF from_fen_panic(Head(setup_events)) # None
    THEN from_fen_panic(Head(setup_events))
    ELSE reset_panic(Tail(setup_events))

reset_board_state ==
    /\ stage = "Update"
    /\ panic = None
    /\ \E setup_events \in {<<>>} \cup {<<fen>> : fen \in Fens} :
          /\ chess_board' = reset_loop(chess_board, setup_events)
          /\ setup_fen' = last_built(setup_fen, setup_events)
          /\ panic' = reset_panic(setup_events)
          /\ outcome' = IF setup_events = <<>>
                        THEN outcome
                        ELSE IF reset_panic(setup_events) # None
                        THEN "panicked" ELSE "reset"
          /\ stage' = IF reset_panic(setup_events) # None THEN stage ELSE "PostUpdate"
    /\ UNCHANGED move_events

(***************************************************************************)
(* make_move (PostUpdate): the loop body, once per RequestMoveEvent read.  *)
(***************************************************************************)
\* The bookkeeping that follows the relocations of an accepted move.
\* complete_move leaving the turn with the side that has just moved.
complete_move_keeps_turn(self, piece_move) ==
    [self EXCEPT
        !.past_moves = Append(self.past_moves, piece_move),
        !.move_number = IF self.active_color = "White" THEN @ + 1 ELSE @,
        !.castling_rights = update_after_move(@, piece_move)]

\* complete_move counting the moves of White instead of those of Black.
complete_move_counts_white(self, piece_move) ==
    LET flipped == opposite(self.active_color)
    IN  [self EXCEPT
            !.active_color = flipped,
            !.past_moves = Append(self.past_moves, piece_move),
            !.move_number = IF flipped = "Black" THEN @ + 1 ELSE @,
            !.castling_rights = update_after_move(@, piece_move)]

\* complete_move recording the move as Move::from_board builds it on the board
\* after the relocation, not the record that was requested.
complete_move_records_rebuilt(self, piece_move) ==
    LET flipped == opposite(self.active_color)
    IN  [self EXCEPT
            !.active_color = flipped,
            !.past_moves = Append(self.past_moves,
                                  from_board(piece_move.from, piece_move.to, self)),
            !.move_number = IF flipped = "White" THEN @ + 1 ELSE @,
            !.castling_rights = update_after_move(@, piece_move)]

complete_move(self, piece_move) ==
    LET flipped == opposite(self.active_color)
    IN  [self EXCEPT
            !.active_color = flipped,
            !.past_moves = Append(self.past_moves, piece_move),
            !.move_number = IF flipped = "White" THEN @ + 1 ELSE @,
            !.castling_rights = update_after_move(@, piece_move)]

PieceMoveEvent_new(from, to) == [from |-> from, to |-> to]

\* The body of `if board.valid_move(..) { .. }`: what an accepted request
\* does to the board and the event queue, until it completes or panics.
accept_move(self, events, piece_move) ==
    LET moved == move_piece(self, piece_move.from, piece_move.to)
        sent == Append(events, PieceMoveEvent_new(piece_move.from, piece_move.to))
        from == castle_rook_from(piece_move)
        to == castle_rook_to(piece_move)
    IN  IF piece_move.is_castle
        THEN IF move_piece_panics(moved, from)
             THEN [chess_board |-> moved,
                   move_events |-> sent,
                   outcome |-> "panicked",
                   panic |-> "No piece at start location."]
             ELSE [chess_board |-> complete_move(move_piece(moved, from, to), piece_move),
                   move_events |-> Append(sent, PieceMoveEvent_new(from, to)),
                   outcome |-> "accepted",
                   panic |-> None]
        ELSE [chess_board |-> complete_move(moved, piece_move),
              move_events |-> sent,
              outcome |-> "accepted",
              panic |-> None]

\* make_move_body sending the PieceMoveEvent before it validates the request.
make_move_body_event_first(self, events, piece_move) ==
    IF valid_move(self, piece_move, self.active_color, TRUE)
    THEN accept_move(self, events, piece_move)
    ELSE [chess_board |-> self,
          move_events |-> Append(events,
                                 PieceMoveEvent_new(piece_move.from, piece_move.to)),
          outcome |-> "rejected",
          panic |-> None]

\* The loop body of make_move for one request.
make_move_body(self, events, piece_move) ==
    IF valid_move(self, piece_move, self.active_color, TRUE)
    THEN accept_move(self, events, piece_move)
    ELSE [chess_board |-> self,
          move_events |-> events,
          outcome |-> "rejected",
          panic |-> None]

make_move(piece_move) ==
    /\ stage = "PostUpdate"
    /\ panic = None
    /\ Len(chess_board.past_moves) < MaxMoves
    /\ LET done == make_move_body(chess_board, move_events, piece_move)
       IN  /\ chess_board' = done.chess_board
           /\ move_events' = done.move_events
           /\ outcome' = done.outcome
           /\ panic' = done.panic
    /\ UNCHANGED <<setup_fen, stage>>

\* The requests the presentation layer can build: Move::from_board on the
\* board as it stands, for a square that holds a piece.
Requests(self) ==
    {from_board(ScanOrder[i], ScanOrder[j], self) :
        i \in Occupied(self), j \in DOMAIN ScanOrder}

request_move ==
    \E piece_move \in Requests(chess_board) : make_move(piece_move)

\* PostUpdate has read every request of the frame; the next frame begins.
next_frame ==
    /\ stage = "PostUpdate"
    /\ panic = None
    /\ stage' = "PreUpdate"
    /\ outcome' = "none"
    /\ UNCHANGED <<chess_board, setup_fen, move_events, panic>>

Next ==
    \/ game_end_checker
    \/ reset_board_state
    \/ request_move
    \/ next_frame

Spec == Init /\ [][Next]_vars

(***************************************************************************)
(* The placement parser on its own: the board after `setup`, then resets   *)
(* whose Fens range over placement fields built rank by rank.              *)
(***************************************************************************)
\* STARTING_FEN "rnbqkbnr/pppppppp/8/8/8/8/PPPPPPPP/RNBQKBNR w KQkq - 0 1"
Fen_default ==
    [piece_placement |-> <<
        <<"r", "n", "b", "q", "k", "b", "n", "r">>,
        <<"p", "p", "p", "p", "p", "p", "p", "p">>,
        <<"8">>,
        <<"8">>,
        <<"8">>,
        <<"8">>,
        <<"P", "P", "P", "P", "P", "P", "P", "P">>,
        <<"R", "N", "B", "Q", "K", "B", "N", "R">>>>,
     active_color |-> "w",
     castling_rights |-> <<"K", "Q", "k", "q">>,
     move_number |-> 1]

\* Rank strings of eight files each, for the back ranks, the pawn ranks and a
\* rank of the middle of the board.
BlackBackRanks ==
    {<<"8">>, <<"r", "n", "b", "q", "k", "b", "n", "r">>,
     <<"4", "k", "3">>, <<"r", "3", "k", "2", "r">>}

BlackPawnRanks ==
    {<<"8">>, <<"p", "p", "p", "p", "p", "p", "p", "p">>,
     <<"p", "6", "p">>, <<"1", "1", "p", "5">>}

MiddleRanks == {<<"8">>, <<"4", "4">>, <<"3", "Q", "n", "3">>}

WhitePawnRanks ==
    {<<"8">>, <<"P", "P", "P", "P", "P", "P", "P", "P">>,
     <<"P", "6", "P">>, <<"7", "P">>}

WhiteBackRanks ==
    {<<"8">>, <<"R", "N", "B", "Q", "K", "B", "N", "R">>,
     <<"4", "K", "3">>, <<"R", "3", "K", "2", "R">>}

PlacementFens ==
    {[Fen_default EXCEPT !.piece_placement =
         <<back, pawns, <<"8">>, middle, <<"8">>, <<"8">>, white_pawns, white_back>>] :
        back \in BlackBackRanks, pawns \in BlackPawnRanks, middle \in MiddleRanks,
        white_pawns \in WhitePawnRanks, white_back \in WhiteBackRanks}

\* Last ranks with a character that is neither a digit from 1 to 8 nor a
\* piece letter.
MalformedRanks ==
    {<<"R", "K", "1", "x", "1", "B", "B", "1">>,
     <<"K", "0", "7">>,
     <<"0", "8">>,
     <<"K", "9">>,
     <<"9">>}

MalformedFens ==
    {[Fen_default EXCEPT !.piece_placement[8] = last] : last \in MalformedRanks}

\* Last ranks that go on after their eighth file: the piece that follows lands
\* on rank 8.
OverlongRanks == {<<"R", "7", "K">>, <<"8", "k">>, <<"4", "K", "3", "Q", "7">>}

OverlongFens ==
    {[Fen_default EXCEPT !.piece_placement[8] = last] : last \in OverlongRanks}

\* The board as `setup` leaves it at Startup.
FenInit ==
    /\ setup_fen = Fen_default
    /\ chess_board = from_fen(setup_fen)
    /\ move_events = <<>>
    /\ stage = "Update"
    /\ outcome = "none"
    /\ panic = None

\* reset_board_state reading one ResetBoardEvent, in a frame without requests.
reset_from_placement ==
    /\ stage = "Update"
    /\ panic = None
    /\ \E fen \in PlacementFens \cup MalformedFens \cup OverlongFens :
          /\ chess_board' = reset_loop(chess_board, <<fen>>)
          /\ setup_fen' = last_built(setup_fen, <<fen>>)
          /\ panic' = reset_panic(<<fen>>)
          /\ outcome' = IF reset_panic(<<fen>>) # None THEN "panicked" ELSE "reset"
          /\ stage' = IF reset_panic(<<fen>>) # None THEN stage ELSE "PostUpdate"
    /\ UNCHANGED move_events

FenNext == reset_from_placement

FenSpec == FenInit /\ [][FenNext]_vars

(***************************************************************************)
(* The parser on placement fields whose '/'-separated segments may describe *)
(* fewer than eight files.                                                  *)
(***************************************************************************)
\* Segments of eight files and of fewer, for five of the eight ranks.
BlackBackSegments ==
    {<<"r", "n", "b", "q", "k", "b", "n", "r">>, <<"4", "k">>, <<"k", "2", "r">>}

BlackPawnSegments == {<<"8">>, <<"p", "p">>, <<"7">>}

MiddleSegments == {<<"8">>, <<"3", "Q", "n", "3">>, <<"n">>}

WhitePawnSegments == {<<"P", "P", "P", "P", "P", "P", "P", "P">>, <<"P", "6">>, <<"8">>}

WhiteBackSegments ==
    {<<"R", "N", "B", "Q", "K", "B", "N", "R">>, <<"4", "K", "3">>, <<"4", "K">>}

SegmentFens ==
    {[Fen_default EXCEPT !.piece_placement =
         <<back, pawns, <<"8">>, middle, <<"8">>, <<"8">>, white_pawns, white_back>>] :
        back \in BlackBackSegments, pawns \in BlackPawnSegments,
        middle \in MiddleSegments, white_pawns \in WhitePawnSegments,
        white_back \in WhiteBackSegments}

\* reset_board_state reading one ResetBoardEvent whose placement field has
\* eight segments.
reset_from_segments ==
    /\ stage = "Update"
    /\ panic = None
    /\ \E fen \in SegmentFens :
          /\ chess_board' = reset_loop(chess_board, <<fen>>)
          /\ setup_fen' = last_built(setup_fen, <<fen>>)
          /\ panic' = reset_panic(<<fen>>)
          /\ outcome' = IF reset_panic(<<fen>>) # None THEN "panicked" ELSE "reset"
          /\ stage' = IF reset_panic(<<fen>>) # None THEN stage ELSE "PostUpdate"
    /\ UNCHANGED move_events

SegmentNext == reset_from_segments

SegmentSpec == FenInit /\ [][SegmentNext]_vars

(***************************************************************************)
(* Properties                                                              *)
(***************************************************************************)
LastMove == chess_board.past_moves[Len(chess_board.past_moves)]

\* A step of make_move that accepted, resp. rejected, a request.
AcceptStep == stage = "PostUpdate" /\ stage' = "PostUpdate" /\ outcome' = "accepted"

RejectStep == stage = "PostUpdate" /\ stage' = "PostUpdate" /\ outcome' = "rejected"

\* A pass of game_end_checker.
CheckerStep == stage = "PreUpdate" /\ stage' = "Update"

\* The castle requests valid_move accepts on the board as it stands.
AcceptedCastles ==
    {piece_move \in Requests(chess_board) :
        /\ piece_move.is_castle
        /\ valid_move(chess_board, piece_move, chess_board.active_color, TRUE)}

\* The corner of the castling side on the king's rank: file 7 king-side, file 0
\* queen-side.
Corner(piece_move) ==
    BoardPosition_new(piece_move.from.rank,
                      IF piece_move.to.file > piece_move.from.file
                      THEN BOARD_SIZE - 1 ELSE 0)

\* The square next to the king's destination, on the side the king came from.
Crossed(piece_move) ==
    BoardPosition_new(piece_move.to.rank,
                      piece_move.to.file
                        - signum(piece_move.to.file - piece_move.from.file))

RightOf(rights_of, color, piece_move) ==
    LET rights == IF color = "White" THEN rights_of.white ELSE rights_of.black
    IN  IF piece_move.to.file > piece_move.from.file THEN rights[1] ELSE rights[2]

KingHasMoved(color) ==
    \E k \in DOMAIN chess_board.past_moves :
        /\ chess_board.past_moves[k].piece_type = "King"
        /\ chess_board.past_moves[k].piece_color = color

\* C1: after an accepted request has been applied in full (the rook's
\* relocation of a castle included) the side that moved is not in check.
C1_MoverNotInCheck ==
    outcome = "accepted" => ~in_check(chess_board, LastMove.piece_color)

\* C2: an accepted castle puts the king two files from its start, puts the
\* rook of the castling side's corner next to it on the side the king crossed,
\* empties the king's square and the corner, and relocates nothing else.
C2_CastleMovesKingAndCornerRook ==
    [][(AcceptStep /\ LastMove'.is_castle) =>
        LET piece_move == LastMove'
            corner == Corner(piece_move)
            adjacent == Crossed(piece_move)
            before == chess_board.board
            after == chess_board'.board
        IN  /\ piece_move.to.rank = piece_move.from.rank
            /\ abs_diff(piece_move.to.file, piece_move.from.file) = 2
            /\ before[piece_move.from.rank][piece_move.from.file].type = "King"
            /\ after[piece_move.to.rank][piece_move.to.file] =
                   set_position(before[piece_move.from.rank][piece_move.from.file],
                                piece_move.to)
            /\ before[corner.rank][corner.file].type = "Rook"
            /\ after[adjacent.rank][adjacent.file] =
                   set_position(before[corner.rank][corner.file], adjacent)
            /\ is_none(after[piece_move.from.rank][piece_move.from.file])
            /\ is_none(after[corner.rank][corner.file])
            /\ \A i \in DOMAIN ScanOrder :
                  ScanOrder[i] \notin {piece_move.from, piece_move.to, corner, adjacent}
                  => after[ScanOrder[i].rank][ScanOrder[i].file]
                       = before[ScanOrder[i].rank][ScanOrder[i].file]
    ]_vars

\* C3: make_move never reaches move_piece's panic "No piece at start
\* location.": no request makes it call move_piece on an empty square.
C3_MovePieceNeverPanics == panic = None

\* C4: a rejected request changes nothing of the board (grid, active colour,
\* past moves, move number, castling rights, winner, game end status) and
\* sends no PieceMoveEvent.
C4_RejectedRequestIsNoOp ==
    [][RejectStep =>
        /\ chess_board'.board = chess_board.board
        /\ chess_board'.active_color = chess_board.active_color
        /\ chess_board'.past_moves = chess_board.past_moves
        /\ chess_board'.move_number = chess_board.move_number
        /\ chess_board'.castling_rights = chess_board.castling_rights
        /\ chess_board'.winner = chess_board.winner
        /\ chess_board'.game_end_status = chess_board.game_end_status
        /\ move_events' = move_events
    ]_vars

C4_Witness ==
    /\ outcome = "rejected"
    /\ chess_board.active_color # None
    /\ chess_board.past_moves # <<>>

\* C5: when game_end_checker runs after an accepted move and the active colour
\* c has no legal move, the status becomes Checkmate with winner opposite(c)
\* if c is in check and Stalemate with no winner otherwise, and the active
\* colour becomes None; when c has a legal move the three fields are unchanged.
C5_GameEndDetection ==
    [][(CheckerStep /\ move_events # <<>> /\ chess_board.active_color # None) =>
        LET c == chess_board.active_color
        IN  IF get_valid_moves(chess_board, c, TRUE) = <<>>
            THEN /\ chess_board'.active_color = None
                 /\ IF in_check(chess_board, c)
                    THEN /\ chess_board'.game_end_status = "Checkmate"
                         /\ chess_board'.winner = opposite(c)
                    ELSE /\ chess_board'.game_end_status = "Stalemate"
                         /\ chess_board'.winner = None
            ELSE /\ chess_board'.game_end_status = chess_board.game_end_status
                 /\ chess_board'.winner = chess_board.winner
                 /\ chess_board'.active_color = chess_board.active_color
    ]_vars

C5_Witness ==
    /\ chess_board.game_end_status = "Checkmate"
    /\ chess_board.winner = "White"
    /\ chess_board.active_color = None

\* C6: once the game end status is set the active colour is None, and until a
\* reset no request is accepted and nothing of the board changes.
C6_EndedGameIsFrozen ==
    [][chess_board.game_end_status # None =>
        /\ chess_board.active_color = None
        /\ stage # "Update" =>
              /\ chess_board' = chess_board
              /\ outcome' \notin {"accepted", "panicked"}
              /\ stage = "PostUpdate" => move_events' = move_events
    ]_vars

C6_Witness ==
    /\ chess_board.game_end_status # None
    /\ outcome = "rejected"

\* C7: between two resets a castling right that is false stays false.
C7_RightsAreOneWay ==
    [][stage # "Update" =>
        \A side \in 1..2 :
            /\ ~chess_board.castling_rights.white[side]
                  => ~chess_board'.castling_rights.white[side]
            /\ ~chess_board.castling_rights.black[side]
                  => ~chess_board'.castling_rights.black[side]
    ]_vars

\* White's king-side rook has left its corner, the right is gone, and a
\* later move has been made with it still gone.
C7_Witness ==
    /\ chess_board.castling_rights.white = <<FALSE, TRUE>>
    /\ \E k \in DOMAIN chess_board.past_moves :
          /\ k < Len(chess_board.past_moves)
          /\ chess_board.past_moves[k].piece_type = "Rook"
          /\ chess_board.past_moves[k].piece_color = "White"
          /\ chess_board.past_moves[k].from = BoardPosition_new(7, 7)

\* C8: valid_move accepts a castle only toward a side whose right is true, so
\* that no castle is accepted for a colour whose king has made a move.
C8_CastleNeedsRight ==
    \A piece_move \in AcceptedCastles :
        /\ RightOf(chess_board.castling_rights, chess_board.active_color, piece_move)
        /\ ~KingHasMoved(chess_board.active_color)

C8_Witness ==
    /\ outcome = "accepted"
    /\ LastMove.is_castle
    /\ LastMove.to.file > LastMove.from.file

\* C9: valid_move accepts a castle only if every square strictly between the
\* king and the corner of the castling side is empty.
C9_CastleNeedsEmptySquares ==
    \A piece_move \in AcceptedCastles :
        \A file \in 0..(BOARD_SIZE - 1) :
            (\/ (piece_move.from.file < file /\ file < Corner(piece_move).file)
             \/ (Corner(piece_move).file < file /\ file < piece_move.from.file))
            => is_none(chess_board.board[piece_move.from.rank][file])

\* C10: valid_move accepts no castle whose crossed square or destination is
\* attacked by the opponent (the king would be in check standing on it).
C10_CastleNotThroughCheck ==
    \A piece_move \in AcceptedCastles :
        /\ ~in_check(move_piece(chess_board, piece_move.from, Crossed(piece_move)),
                     chess_board.active_color)
        /\ ~in_check(move_piece(chess_board, piece_move.from, piece_move.to),
                     chess_board.active_color)

\* The castle requests that pass every test of valid_move's castle branch but
\* the one on the current position: the right is held, the squares up to the
\* rook's square are empty and the king is safe on its destination.
CastlesButForCheck ==
    {piece_move \in Requests(chess_board) :
        /\ piece_move.is_castle
        /\ valid_move(chess_board, piece_move, chess_board.active_color, FALSE)
        /\ RightOf(chess_board.castling_rights, chess_board.active_color, piece_move)
        /\ no_piece_between_squares(chess_board, piece_move.from,
                                    castle_rook_from(piece_move))
        /\ ~in_check(move_piece(chess_board, piece_move.from, piece_move.to),
                     chess_board.active_color)}

\* C11: no castle is accepted while the king of the side to move is in check
\* in the current position, even when its destination square is safe.
C11_NoCastleOutOfCheck ==
    (chess_board.active_color # None
     /\ in_check(chess_board, chess_board.active_color))
        => AcceptedCastles = {}

\* A request was rejected on a board where the king of the side to move is in
\* check and a castle fails that test alone.
C11_Witness ==
    /\ outcome = "rejected"
    /\ chess_board.active_color # None
    /\ in_check(chess_board, chess_board.active_color)
    /\ CastlesButForCheck # {}


\* The requests that move a king of the side to move, standing on its starting
\* square, two files along its rank while the right of that side is held, the
\* squares between the king and the corner are empty, the king is not in check
\* and neither the crossed square nor the destination is attacked.
DueCastles ==
    {piece_move \in Requests(chess_board) :
        LET piece == chess_board.board[piece_move.from.rank][piece_move.from.file]
        IN  /\ chess_board.active_color # None
            /\ piece.type = "King"
            /\ piece.color = chess_board.active_color
            /\ piece.position = piece.starting_position
            /\ piece_move.to.rank = piece_move.from.rank
            /\ abs_diff(piece_move.to.file, piece_move.from.file) = 2
            /\ RightOf(chess_board.castling_rights, chess_board.active_color, piece_move)
            /\ \A file \in 0..(BOARD_SIZE - 1) :
                  (\/ (piece_move.from.file < file /\ file < Corner(piece_move).file)
                   \/ (Corner(piece_move).file < file /\ file < piece_move.from.file))
                  => is_none(chess_board.board[piece_move.from.rank][file])
            /\ ~in_check(chess_board, chess_board.active_color)
            /\ ~in_check(move_piece(chess_board, piece_move.from, Crossed(piece_move)),
                         chess_board.active_color)
            /\ ~in_check(move_piece(chess_board, piece_move.from, piece_move.to),
                         chess_board.active_color)}

\* C12: every such request is classified as a castle by Move::from_board, is
\* accepted by valid_move with check_for_check = true and is listed by
\* get_valid_moves.
C12_CastleCompleteness ==
    \A piece_move \in DueCastles :
        /\ piece_move.is_castle
        /\ valid_move(chess_board, piece_move, chess_board.active_color, TRUE)
        /\ contains(get_valid_moves(chess_board, chess_board.active_color, TRUE),
                    piece_move)

\* A board on which both a king-side and a queen-side castle are due.
C12_Witness ==
    /\ \E piece_move \in DueCastles : piece_move.to.file > piece_move.from.file
    /\ \E piece_move \in DueCastles : piece_move.to.file < piece_move.from.file

\* C13: a move accepted by make_move moves a piece of the colour that was
\* active_color when the request was read, and active_color is the opposite
\* colour right after it; so consecutive entries of past_moves never have the
\* same colour.
C13_TurnsAlternate ==
    /\ [][AcceptStep =>
            /\ chess_board.active_color # None
            /\ LastMove'.piece_color = chess_board.active_color
            /\ get_piece_color(chess_board, LastMove'.from) = chess_board.active_color
            /\ get_piece_color(chess_board', LastMove'.to) = chess_board.active_color
            /\ chess_board'.active_color = opposite(chess_board.active_color)]_vars
    /\ [](\A k \in 1..(Len(chess_board.past_moves) - 1) :
            chess_board.past_moves[k + 1].piece_color
                = opposite(chess_board.past_moves[k].piece_color))

\* Two requests have been accepted since the last reset.
C13_Witness ==
    /\ outcome = "accepted"
    /\ Len(chess_board.past_moves) = 2
    /\ chess_board.past_moves[1].piece_color # chess_board.past_moves[2].piece_color

\* The number of accepted moves of Black since the last reset.
BlackMoves ==
    Cardinality({k \in DOMAIN chess_board.past_moves :
                    chess_board.past_moves[k].piece_color = "Black"})

\* C14: an accepted move of Black adds exactly 1 to move_number, an accepted
\* move of White and a rejected request leave it alone; so move_number is the
\* full-move number of the Fen of the last reset plus the number of accepted
\* moves of Black since then.
C14_MoveNumberCountsBlackMoves ==
    /\ [][/\ AcceptStep =>
               chess_board'.move_number =
                   chess_board.move_number
                   + (IF LastMove'.piece_color = "Black" THEN 1 ELSE 0)
          /\ RejectStep => chess_board'.move_number = chess_board.move_number
          /\ BlackMoves' = BlackMoves =>
               \/ chess_board'.move_number = chess_board.move_number
               \/ chess_board'.past_moves = <<>>]_vars
    /\ [](chess_board.move_number = setup_fen.move_number + BlackMoves)

\* Black has made an accepted move on a board whose Fen starts at move 7.
C14_Witness ==
    /\ outcome = "accepted"
    /\ LastMove.piece_color = "Black"
    /\ chess_board.move_number = 8

\* C15: an accepted request appends exactly one entry to past_moves, the Move
\* record that was requested (a request valid_move accepts on the board before
\* the step, whose piece now stands on its destination), also when the move is
\* a castle; a rejected request, game_end_checker and the end of the frame
\* leave past_moves alone.
C15_PastMovesIsTheHistory ==
    [][/\ AcceptStep =>
            /\ chess_board'.past_moves = Append(chess_board.past_moves, LastMove')
            /\ LastMove' \in Requests(chess_board)
            /\ valid_move(chess_board, LastMove', chess_board.active_color, TRUE)
            /\ get_piece_type(chess_board', LastMove'.to) = LastMove'.piece_type
            /\ get_piece_color(chess_board', LastMove'.to) = LastMove'.piece_color
            /\ is_none(chess_board'.board[LastMove'.from.rank][LastMove'.from.file])
       /\ (RejectStep \/ stage # "PostUpdate" \/ stage' # "PostUpdate") =>
            \/ chess_board'.past_moves = chess_board.past_moves
            \/ stage = "Update" /\ chess_board'.past_moves = <<>>]_vars

\* A castle and the move before it are the two entries of past_moves.
C15_Witness ==
    /\ outcome = "accepted"
    /\ Len(chess_board.past_moves) = 2
    /\ LastMove.is_castle
    /\ LastMove.piece_type = "King"

\* C16: an accepted move that is no castle sends exactly one PieceMoveEvent,
\* (from, to); an accepted castle sends exactly two, the king's (from, to) and
\* then the rook's, from the corner to the square next to the king; a rejected
\* request sends none.
C16_EventsMatchRelocations ==
    [][/\ (AcceptStep /\ ~LastMove'.is_castle) =>
            move_events' =
                Append(move_events,
                       PieceMoveEvent_new(LastMove'.from, LastMove'.to))
       /\ (AcceptStep /\ LastMove'.is_castle) =>
            move_events' =
                move_events
                \o <<PieceMoveEvent_new(LastMove'.from, LastMove'.to),
                     PieceMoveEvent_new(Corner(LastMove'), Crossed(LastMove'))>>
       /\ RejectStep => move_events' = move_events]_vars

\* The squares a rank string of a placement field describes, file by file:
\* a piece letter for a piece, "." for each square of a digit run.
RECURSIVE RankSquares(_)
RankSquares(rank_str) ==
    IF rank_str = <<>>
    THEN <<>>
    ELSE (IF is_digit(Head(rank_str))
          THEN [i \in 1..to_digit(Head(rank_str)) |-> "."]
          ELSE <<Head(rank_str)>>)
         \o RankSquares(Tail(rank_str))

\* The grid of `self` holds what the placement field of `fen` encodes: on each
\* square the piece of the colour and type of its letter, created on that
\* square, and nothing on the squares of a digit run.
HoldsLayout(self, fen) ==
    \A rank \in 0..(BOARD_SIZE - 1), file \in 0..(BOARD_SIZE - 1) :
        LET symbol == RankSquares(fen.piece_placement[rank + 1])[file + 1]
            cell == self.board[rank][file]
        IN  IF symbol = "."
            THEN is_none(cell)
            ELSE /\ is_some(cell)
                 /\ cell.color = (IF contains(UpperLetters, symbol)
                                  THEN "White" ELSE "Black")
                 /\ cell.type = symbol_piece_type(symbol)
                 /\ cell.position = BoardPosition_new(rank, file)
                 /\ cell.starting_position = BoardPosition_new(rank, file)

\* C17: a reset replaces the whole board, whatever it was before: the grid
\* holds the layout of the Fen, active_color, move_number and castling_rights
\* are the Fen's, past_moves is empty and winner and game_end_status are None.
C17_ResetReplacesBoard ==
    [][(stage = "Update" /\ outcome' = "reset") =>
          /\ HoldsLayout(chess_board', setup_fen')
          /\ chess_board'.active_color
                = (IF setup_fen'.active_color = "w" THEN "White" ELSE "Black")
          /\ chess_board'.move_number = setup_fen'.move_number
          /\ chess_board'.castling_rights.white
                = <<contains(setup_fen'.castling_rights, "K"),
                    contains(setup_fen'.castling_rights, "Q")>>
          /\ chess_board'.castling_rights.black
                = <<contains(setup_fen'.castling_rights, "k"),
                    contains(setup_fen'.castling_rights, "q")>>
          /\ chess_board'.past_moves = <<>>
          /\ chess_board'.winner = None
          /\ chess_board'.game_end_status = None]_vars

\* A reset is about to act on a board whose game has ended.
C17_Witness ==
    /\ stage = "Update"
    /\ chess_board.game_end_status # None
    /\ chess_board.past_moves # <<>>

\* The number of pieces of `color` that stand on the ranks `ranks`.
PiecesOn(self, color, ranks) ==
    Cardinality({i \in Occupied(self) :
                    /\ self.board[ScanOrder[i].rank][ScanOrder[i].file].color = color
                    /\ ScanOrder[i].rank \in ranks})

\* C18: for a placement field of eight ranks of eight files each, the parsed
\* grid holds on every square the piece its letter encodes and nothing where a
\* digit run covers the square; the default Fen gives 16 pieces of White on
\* ranks 6 and 7, 16 pieces of Black on ranks 0 and 1 and no other piece.
C18_PlacementRoundTrip ==
    /\ HoldsLayout(chess_board, setup_fen)
    /\ setup_fen = Fen_default =>
          /\ PiecesOn(chess_board, "White", {6, 7}) = 16
          /\ PiecesOn(chess_board, "Black", {0, 1}) = 16
          /\ Cardinality(Occupied(chess_board)) = 32

\* A placement field with digit runs before, between and after its letters
\* has been parsed.
C18_Witness ==
    /\ outcome = "reset"
    /\ setup_fen.piece_placement[4] = <<"3", "Q", "n", "3">>
    /\ setup_fen.piece_placement[2] = <<"1", "1", "p", "5">>
    /\ setup_fen.piece_placement[7] = <<"7", "P">>
    /\ get_piece_type(chess_board, BoardPosition_new(3, 4)) = "Knight"

\* The squares that hold a king of `color`.
KingSquares(self, color) ==
    {ScanOrder[i] : i \in {j \in Occupied(self) :
        /\ self.board[ScanOrder[j].rank][ScanOrder[j].file].type = "King"
        /\ self.board[ScanOrder[j].rank][ScanOrder[j].file].color = color}}

\* The moves of the pieces of the opponent of `color` onto `square` that
\* valid_move accepts with the given check_for_check.
Attacks(self, color, square, check_for_check) ==
    {piece_move \in {from_board(ScanOrder[i], square, self) : i \in Occupied(self)} :
        /\ piece_move.piece_color = opposite(color)
        /\ valid_move(self, piece_move, opposite(color), check_for_check)}

\* C19: for a colour with one king on the board, in_check is true exactly when
\* a piece of the other colour has a move onto the king's square that passes
\* the geometry, capture, occupancy and blocking tests of valid_move (with
\* check_for_check = false), whether or not that move would expose the
\* attacker's own king.
C19_InCheckIffAttacked ==
    \A color \in {"White", "Black"} :
        \A square \in KingSquares(chess_board, color) :
            KingSquares(chess_board, color) = {square} =>
                (in_check(chess_board, color)
                    <=> Attacks(chess_board, color, square, FALSE) # {})

\* A request was handled on a board where a king is in check and every move
\* that attacks it would expose the attacker's own king.
C19_Witness ==
    /\ outcome = "rejected"
    /\ \E color \in {"White", "Black"} :
          \E square \in KingSquares(chess_board, color) :
              /\ KingSquares(chess_board, color) = {square}
              /\ in_check(chess_board, color)
              /\ Attacks(chess_board, color, square, TRUE) = {}

\* The side whose turn it was when the game ended: the opponent of the side
\* that made the last accepted move.
SideToMove == opposite(LastMove.piece_color)

\* C20 as the specification states it: once game_end_status is set,
\* active_color is None; after a Stalemate get_valid_moves with
\* check_for_check = true is empty for White and for Black alike; after a
\* Checkmate the side that was to move has no legal move and is in check.
C20_EndedGameNoMovesEitherColor ==
    chess_board.game_end_status # None =>
        /\ chess_board.active_color = None
        /\ chess_board.game_end_status = "Stalemate" =>
              \A color \in {"White", "Black"} :
                  get_valid_moves(chess_board, color, TRUE) = <<>>
        /\ chess_board.game_end_status = "Checkmate" =>
              /\ get_valid_moves(chess_board, SideToMove, TRUE) = <<>>
              /\ in_check(chess_board, SideToMove)

\* C20 amended: once game_end_status is set, active_color is None and
\* get_valid_moves for the board's own active_color is empty; the side that
\* was to move has no legal move, and it is in check after a Checkmate (the
\* other side being the winner) and not in check after a Stalemate.  The side
\* that made the last move may still have legal moves.
C20_EndedGameSideToMoveHasNoMoves ==
    chess_board.game_end_status # None =>
        /\ chess_board.active_color = None
        /\ get_valid_moves(chess_board, chess_board.active_color, TRUE) = <<>>
        /\ chess_board.past_moves # <<>>
        /\ get_valid_moves(chess_board, SideToMove, TRUE) = <<>>
        /\ chess_board.game_end_status = "Stalemate" =>
              /\ ~in_check(chess_board, SideToMove)
              /\ chess_board.winner = None
        /\ chess_board.game_end_status = "Checkmate" =>
              /\ in_check(chess_board, SideToMove)
              /\ chess_board.winner = opposite(SideToMove)

\* A game ended in Stalemate while the side that gave it can still move.
C20_Witness ==
    /\ chess_board.game_end_status = "Stalemate"
    /\ get_valid_moves(chess_board, opposite(SideToMove), TRUE) # <<>>

\* The characters a placement field may hold besides '/'.
AllowedSymbols ==
    {"1", "2", "3", "4", "5", "6", "7", "8",
     "P", "N", "B", "R", "Q", "K", "p", "n", "b", "r", "q", "k"}

\* C21: a board is built only from a placement field of digits 1 to 8 and
\* piece letters; any other character, '0' and '9' included, ends the parse
\* with the panic that names it and leaves no new board behind.
C21_OnlyDigitsAndPieceLetters ==
    /\ [](\A i \in DOMAIN flatten(setup_fen.piece_placement) :
            flatten(setup_fen.piece_placement)[i] \in AllowedSymbols)
    /\ [][(panic = None /\ panic' # None /\ stage = "Update") =>
            /\ chess_board' = chess_board
            /\ \/ \E fen \in MalformedFens :
                     \E i \in DOMAIN flatten(fen.piece_placement) :
                         /\ flatten(fen.piece_placement)[i] \notin AllowedSymbols
                         /\ panic' = "Unrecognised symbol in FEN: "
                                        \o flatten(fen.piece_placement)[i]
               \/ panic' = "Invalid rank or file value: 8, 0"]_vars

\* The BoardPositions held by the pieces of the grid, by past_moves and by
\* the PieceMoveEvents in flight.
PositionsInUse ==
    UNION {{chess_board.board[ScanOrder[i].rank][ScanOrder[i].file].position,
            chess_board.board[ScanOrder[i].rank][ScanOrder[i].file].starting_position} :
              i \in Occupied(chess_board)}
    \cup UNION {{chess_board.past_moves[k].from, chess_board.past_moves[k].to} :
                   k \in DOMAIN chess_board.past_moves}
    \cup UNION {{move_events[k].from, move_events[k].to} : k \in DOMAIN move_events}

C23_MovePieceFromEmptySquarePanics ==
    /\ [][(panic = None /\ panic' = "No piece at start location.") =>
            \E piece_move \in Requests(chess_board) :
                /\ piece_move.is_castle
                /\ is_none(move_piece(chess_board, piece_move.from, piece_move.to)
                              .board[castle_rook_from(piece_move).rank]
                                    [castle_rook_from(piece_move).file])
                /\ chess_board' =
                      move_piece(chess_board, piece_move.from, piece_move.to)]_vars
    /\ [][AcceptStep =>
            /\ is_some(chess_board.board[LastMove'.from.rank][LastMove'.from.file])
            /\ LastMove'.is_castle =>
                  is_some(chess_board.board[castle_rook_from(LastMove').rank]
                                           [castle_rook_from(LastMove').file])]_vars

\* A castle found no rook on the square it takes the rook from.
C23_Witness ==
    /\ panic = "No piece at start location."
    /\ move_events # <<>>

\* The piece a move takes from its source square, and what stands on its
\* destination, on the board the move is made on.
Mover(self, piece_move) == self.board[piece_move.from.rank][piece_move.from.file]

Target(self, piece_move) == self.board[piece_move.to.rank][piece_move.to.file]

\* The destination occupancy rule for one move on one board.
OccupancyRule(self, piece_move) ==
    /\ is_some(Target(self, piece_move)) =>
          /\ Target(self, piece_move).color # Mover(self, piece_move).color
          /\ piece_valid_capture(Mover(self, piece_move), piece_move.to)
    /\ is_none(Target(self, piece_move)) =>
          piece_valid_move(Mover(self, piece_move), piece_move.to)

\* C24: a move onto a square held by a piece of the mover's colour is never
\* accepted, a move onto an empty square is accepted only inside the piece's
\* valid_move geometry, and a move onto an enemy piece only inside its
\* valid_capture geometry: for every move make_move accepts, and for every
\* move valid_move accepts for either colour without the check test.
C24_DestinationOccupancyRule ==
    /\ [][AcceptStep => OccupancyRule(chess_board, LastMove')]_vars
    /\ [](\A piece_move \in Requests(chess_board) :
            \A color \in {"White", "Black"} :
                valid_move(chess_board, piece_move, color, FALSE) =>
                    OccupancyRule(chess_board, piece_move))

\* A capture was accepted.
C24_Witness ==
    /\ outcome = "accepted"
    /\ chess_board.past_moves # <<>>
    /\ LastMove.is_capture

\* The number of squares a move covers along its longer axis.
Reach(piece_move) ==
    IF abs_diff(piece_move.from.rank, piece_move.to.rank)
         >= abs_diff(piece_move.from.file, piece_move.to.file)
    THEN abs_diff(piece_move.from.rank, piece_move.to.rank)
    ELSE abs_diff(piece_move.from.file, piece_move.to.file)

\* Every square strictly between the two ends of a move, along the ray given
\* by the signs of its rank and file deltas, is empty.
PathClear(self, piece_move) ==
    \A k \in 1..(BOARD_SIZE - 1) :
        k < Reach(piece_move) =>
            is_none(self.board
                [piece_move.from.rank
                    + k * signum(piece_move.to.rank - piece_move.from.rank)]
                [piece_move.from.file
                    + k * signum(piece_move.to.file - piece_move.from.file)])

\* C25: a move of a Bishop, Rook, Queen, King or Pawn is accepted only if
\* every square strictly between its ends is empty, and the pieces standing
\* anywhere but on the destination have no say in a Knight's move: for every
\* move make_move accepts, and for every move valid_move accepts for either
\* colour without the check test.
C25_OnlyKnightsJump ==
    /\ [][(AcceptStep /\ Mover(chess_board, LastMove').type # "Knight") =>
            PathClear(chess_board, LastMove')]_vars
    /\ [](\A piece_move \in Requests(chess_board) :
            \A color \in {"White", "Black"} :
                IF Mover(chess_board, piece_move).type = "Knight"
                THEN valid_move(chess_board, piece_move, color, FALSE)
                       <=> /\ Mover(chess_board, piece_move).color = color
                           /\ OccupancyRule(chess_board, piece_move)
                ELSE valid_move(chess_board, piece_move, color, FALSE) =>
                       PathClear(chess_board, piece_move))

\* A piece other than a Knight was moved two squares or more.
C25_Witness ==
    /\ outcome = "accepted"
    /\ chess_board.past_moves # <<>>
    /\ Reach(LastMove) >= 2
    /\ chess_board.board[LastMove.to.rank][LastMove.to.file].type
          \in {"Bishop", "Rook", "Queen", "King", "Pawn"}

\* The pawn rule for one move on one board: onto an enemy piece exactly one
\* rank forward and one file sideways, onto an empty square along the file.
PawnRule(self, piece_move) ==
    /\ is_some(Target(self, piece_move)) =>
          /\ piece_move.to.rank = piece_move.from.rank
                + (IF Mover(self, piece_move).color = "White" THEN -1 ELSE 1)
          /\ abs_diff(piece_move.from.file, piece_move.to.file) = 1
    /\ is_none(Target(self, piece_move)) =>
          piece_move.to.file = piece_move.from.file

\* C26: an accepted pawn move onto an enemy piece goes one rank forward
\* (toward rank 0 for White, rank 7 for Black) and one file sideways, and an
\* accepted pawn move onto an empty square keeps its file: no capture
\* straight ahead, no diagonal step onto an empty square. For every move
\* make_move accepts, and for every move valid_move accepts for either
\* colour without the check test.
C26_PawnCaptureRule ==
    /\ [][(AcceptStep /\ Mover(chess_board, LastMove').type = "Pawn") =>
            PawnRule(chess_board, LastMove')]_vars
    /\ [](\A piece_move \in Requests(chess_board) :
            \A color \in {"White", "Black"} :
                (/\ Mover(chess_board, piece_move).type = "Pawn"
                 /\ valid_move(chess_board, piece_move, color, FALSE)) =>
                    PawnRule(chess_board, piece_move))

\* A pawn made a capture.
C26_Witness ==
    /\ outcome = "accepted"
    /\ chess_board.past_moves # <<>>
    /\ LastMove.is_capture
    /\ chess_board.board[LastMove.to.rank][LastMove.to.file].type = "Pawn"

\* A pawn move of two ranks.
IsTwoSquareAdvance(self, piece_move) ==
    /\ Mover(self, piece_move).type = "Pawn"
    /\ abs_diff(piece_move.from.rank, piece_move.to.rank) = 2

\* The square a two-square advance passes over and its destination are empty.
AdvancePathEmpty(self, piece_move) ==
    /\ PathClear(self, piece_move)
    /\ is_none(Target(self, piece_move))

\* The pawn has not left the square it was created on.
NotMovedBefore(self, piece_move) ==
    Mover(self, piece_move).position = Mover(self, piece_move).starting_position

\* C27: a pawn's two-square advance is accepted only if the pawn has not
\* moved before and the square passed over and the destination are empty: for
\* every move make_move accepts, and for every request make_move would accept
\* on the board as it stands.
C27_TwoSquareAdvanceOnlyOnce ==
    /\ [][(AcceptStep /\ IsTwoSquareAdvance(chess_board, LastMove')) =>
            /\ NotMovedBefore(chess_board, LastMove')
            /\ AdvancePathEmpty(chess_board, LastMove')]_vars
    /\ [](\A piece_move \in Requests(chess_board) :
            (/\ IsTwoSquareAdvance(chess_board, piece_move)
             /\ valid_move(chess_board, piece_move, chess_board.active_color, TRUE)) =>
                /\ NotMovedBefore(chess_board, piece_move)
                /\ AdvancePathEmpty(chess_board, piece_move))

\* C28: for either colour and either value of check_for_check, a move built
\* by from_board is in the list get_valid_moves returns exactly when
\* valid_move accepts it.
C28_GetValidMovesAgreesWithValidMove ==
    \A color \in {"White", "Black"}, check_for_check \in BOOLEAN :
        LET moves == get_valid_moves(chess_board, color, check_for_check)
        IN  {moves[i] : i \in DOMAIN moves}
              = {piece_move \in Requests(chess_board) :
                    valid_move(chess_board, piece_move, color, check_for_check)}

\* The side to move has moves, a capture among them, and the check test
\* takes some move away from it.
C28_Witness ==
    /\ \E piece_move \in Requests(chess_board) :
          /\ piece_move.is_capture
          /\ valid_move(chess_board, piece_move, chess_board.active_color, TRUE)
    /\ \E piece_move \in Requests(chess_board) :
          /\ valid_move(chess_board, piece_move, chess_board.active_color, FALSE)
          /\ ~valid_move(chess_board, piece_move, chess_board.active_color, TRUE)

\* The place of a square in the scan of get_valid_moves: rank by rank, file
\* by file within the rank.
ScanIndex(position) == position.rank * BOARD_SIZE + position.file

\* The moves of a list come in scan order of their source squares.
InScanOrder(moves) ==
    \A i, j \in DOMAIN moves :
        i < j => ScanIndex(moves[i].from) <= ScanIndex(moves[j].from)

\* No pair of source and destination comes twice in the list.
NoMoveTwice(moves) ==
    \A i, j \in DOMAIN moves :
        i < j => ~(moves[i].from = moves[j].from /\ moves[i].to = moves[j].to)

\* C29: for either colour and either value of check_for_check, get_valid_moves
\* returns its moves in scan order of the source square and lists no pair of
\* source and destination twice.
C29_ScanOrderNoDuplicates ==
    \A color \in {"White", "Black"}, check_for_check \in BOOLEAN :
        /\ InScanOrder(get_valid_moves(chess_board, color, check_for_check))
        /\ NoMoveTwice(get_valid_moves(chess_board, color, check_for_check))

\* The two rights of one colour: the king side first, the queen side second.
RightsOfColor(rights_of, color) ==
    IF color = "White" THEN rights_of.white ELSE rights_of.black

\* C30: an accepted move of colour c leaves the opponent's castling rights as
\* they were; a King move sets both rights of c to false, a Rook move from
\* file 0 clears c's queen-side right and keeps the other, a Rook move from
\* file 7 clears c's king-side right and keeps the other, and every other
\* move leaves the rights of c as they were.
C30_CastlingRightsUpdate ==
    [][AcceptStep =>
        LET color == LastMove'.piece_color
            before == RightsOfColor(chess_board.castling_rights, color)
            after == RightsOfColor(chess_board'.castling_rights, color)
        IN  /\ color = chess_board.active_color
            /\ RightsOfColor(chess_board'.castling_rights, opposite(color))
                 = RightsOfColor(chess_board.castling_rights, opposite(color))
            /\ after =
                 IF LastMove'.piece_type = "King"
                 THEN <<FALSE, FALSE>>
                 ELSE IF LastMove'.piece_type = "Rook" /\ LastMove'.from.file = 0
                 THEN <<before[1], FALSE>>
                 ELSE IF LastMove'.piece_type = "Rook" /\ LastMove'.from.file = 7
                 THEN <<FALSE, before[2]>>
                 ELSE before
    ]_vars

\* White's rook has left the a-file: the queen-side right is gone and the
\* king-side right is still there.
C30_Witness ==
    /\ outcome = "accepted"
    /\ chess_board.past_moves # <<>>
    /\ LastMove.piece_type = "Rook"
    /\ LastMove.piece_color = "White"
    /\ LastMove.from.file = 0
    /\ chess_board.castling_rights.white = <<TRUE, FALSE>>

\* The back rank of a colour, and the rook's corner file of a castling side
\* (1 the king side, 2 the queen side).
BackRank(color) == IF color = "White" THEN BOARD_SIZE - 1 ELSE 0

CornerFile(side) == IF side = 1 THEN BOARD_SIZE - 1 ELSE 0

\* A piece of the given type and colour stands on (rank, file).
StandsOn(self, type, color, rank, file) ==
    /\ is_some(self.board[rank][file])
    /\ self.board[rank][file].type = type
    /\ self.board[rank][file].color = color

\* C31: while the program runs, a castling right that is true for a colour
\* and a side has that colour's king on file 4 of its back rank and a rook of
\* that colour on the corner of that side.
C31_RightImpliesKingAndRookAtHome ==
    panic = None =>
        \A color \in {"White", "Black"}, side \in 1..2 :
            RightsOfColor(chess_board.castling_rights, color)[side] =>
                /\ StandsOn(chess_board, "King", color, BackRank(color), 4)
                /\ StandsOn(chess_board, "Rook", color, BackRank(color), CornerFile(side))

C33_KingsAreNeverCaptured ==
    /\ [](\A color \in {"White", "Black"} :
            Cardinality(KingSquares(chess_board, color)) = 1)
    /\ [][AcceptStep =>
            ~(/\ is_some(Target(chess_board, LastMove'))
              /\ Target(chess_board, LastMove').type = "King")]_vars

\* Every piece of the grid stores the square of the cell that holds it.
PositionsMatchCells(self) ==
    \A i \in Occupied(self) :
        self.board[ScanOrder[i].rank][ScanOrder[i].file].position = ScanOrder[i]

\* The piece on `to` after a relocation is the one that stood on `from`.
SamePiece(before, from, after, to) ==
    /\ is_some(after.board[to.rank][to.file])
    /\ after.board[to.rank][to.file].type = before.board[from.rank][from.file].type
    /\ after.board[to.rank][to.file].color = before.board[from.rank][from.file].color

\* The squares an accepted move takes a piece from or puts one on.
Touched(piece_move) ==
    {piece_move.from, piece_move.to}
    \cup (IF piece_move.is_castle
          THEN {castle_rook_from(piece_move), castle_rook_to(piece_move)}
          ELSE {})

\* C34: the board built from a Fen and every board reached from it by
\* accepted moves, castles included, holds in each occupied cell (r, f) a piece
\* whose position is (r, f); the piece an accepted move puts on a square has
\* the type and colour of the piece it took from the source, and the cells
\* the move does not touch keep their pieces.
C34_GridPieceConsistency ==
    /\ [](PositionsMatchCells(chess_board))
    /\ [][AcceptStep =>
            /\ SamePiece(chess_board, LastMove'.from, chess_board', LastMove'.to)
            /\ LastMove'.is_castle =>
                  SamePiece(chess_board, castle_rook_from(LastMove'),
                            chess_board', castle_rook_to(LastMove'))
            /\ \A i \in DOMAIN ScanOrder :
                  ScanOrder[i] \notin Touched(LastMove') =>
                      chess_board'.board[ScanOrder[i].rank][ScanOrder[i].file]
                        = chess_board.board[ScanOrder[i].rank][ScanOrder[i].file]]_vars

\* A castle has been completed: the king and the piece moved with it store
\* their new squares.
C34_Witness ==
    /\ outcome = "accepted"
    /\ chess_board.past_moves # <<>>
    /\ LastMove.is_castle
    /\ chess_board.board[LastMove.to.rank][LastMove.to.file].position = LastMove.to
    /\ chess_board.board[castle_rook_to(LastMove).rank]
                         [castle_rook_to(LastMove).file].position
          = castle_rook_to(LastMove)

\* The colour to move has no move that valid_move accepts with the check test.
NoLegalMove(self) ==
    /\ self.active_color # None
    /\ get_valid_moves(self, self.active_color, TRUE) = <<>>

\* C35: a move that leaves the new active colour without a legal move is
\* followed by its detection: no request is accepted on such a board, the
\* run of game_end_checker that reads the move's PieceMoveEvent sets
\* game_end_status and clears active_color, and once the checker has run
\* after a move the colour to move, if there is one, has a legal move.
C35_DetectionFollowsEveryMove ==
    /\ [][(AcceptStep /\ move_events # <<>>) => ~NoLegalMove(chess_board)]_vars
    /\ [][(CheckerStep /\ move_events # <<>> /\ NoLegalMove(chess_board)) =>
            /\ chess_board'.game_end_status # None
            /\ chess_board'.active_color = None]_vars
    /\ []((stage = "Update" /\ panic = None /\ chess_board.past_moves # <<>>)
            => ~NoLegalMove(chess_board))

\* A request was rejected on a board whose last move left the colour to move
\* without a legal move, before game_end_checker has run.
C35_Witness ==
    /\ stage = "PostUpdate"
    /\ outcome = "rejected"
    /\ move_events # <<>>
    /\ NoLegalMove(chess_board)

\* The Move records with the source and destination of `piece_move` and any
\* piece_type, piece_color, is_capture and is_castle.
FlagVariants(piece_move) ==
    {[from |-> piece_move.from,
      to |-> piece_move.to,
      piece_type |-> type,
      piece_color |-> color,
      is_capture |-> capture,
      is_castle |-> castle] :
        type \in {"King", "Queen", "Bishop", "Knight", "Rook", "Pawn"},
        color \in {"White", "Black"},
        capture \in BOOLEAN,
        castle \in BOOLEAN}

\* What make_move leaves of the grid and the castling rights for one request.
GridAndRights(self, piece_move) ==
    LET done == make_move_body(self, <<>>, piece_move).chess_board
    IN  <<done.board, done.castling_rights>>

\* C36: on the board as it stands, two requests with the same source and
\* destination get the same verdict from valid_move and the same grid and
\* castling rights from make_move, whatever piece_type, piece_color,
\* is_capture and is_castle they carry.
C36_FlagsDoNotMatter ==
    panic = None =>
        \A piece_move \in Requests(chess_board) :
            \A other \in FlagVariants(piece_move) :
                /\ valid_move(chess_board, other, chess_board.active_color, TRUE)
                     = valid_move(chess_board, piece_move, chess_board.active_color, TRUE)
                /\ GridAndRights(chess_board, other)
                     = GridAndRights(chess_board, piece_move)

\* The calls below one call of in_check: each has check_for_check false and
\* hands no board to in_check.
InCheckDoesNotRecurse(self, color) ==
    \A call \in in_check_valid_move_calls(self, color) :
        /\ ~call.check_for_check
        /\ valid_move_in_check_calls(self, call.piece_move, call.active_color,
                                     call.check_for_check) = <<>>

\* valid_move without the check test calls in_check on no board, with it on
\* three boards at most, and no call of in_check leads to another.
BoundedNesting(self, piece_move, color) ==
    /\ valid_move_in_check_calls(self, piece_move, color, FALSE) = <<>>
    /\ LET calls == valid_move_in_check_calls(self, piece_move, color, TRUE)
       IN  /\ Len(calls) <= 3
           /\ \A k \in DOMAIN calls : InCheckDoesNotRecurse(calls[k].board, color)

\* C37 as stated: the nesting of valid_move and in_check is bounded, and every
\* board valid_move hands to in_check is a clone.
C37_InCheckOnlyOnClones ==
    \A piece_move \in Requests(chess_board), color \in {"White", "Black"} :
        /\ BoundedNesting(chess_board, piece_move, color)
        /\ \A k \in DOMAIN valid_move_in_check_calls(chess_board, piece_move, color, TRUE) :
              valid_move_in_check_calls(chess_board, piece_move, color, TRUE)[k].is_clone

\* C37: the nesting of valid_move and in_check is bounded: valid_move with
\* check_for_check false never calls in_check, valid_move with check_for_check
\* true calls it on the clone with the move applied and, for a castle, on the
\* board itself, and in_check calls valid_move with check_for_check false only.
C37_BoundedNesting ==
    \A piece_move \in Requests(chess_board), color \in {"White", "Black"} :
        /\ BoundedNesting(chess_board, piece_move, color)
        /\ LET calls == valid_move_in_check_calls(chess_board, piece_move, color, TRUE)
           IN  \A k \in DOMAIN calls :
                  IF calls[k].is_clone
                  THEN calls[k].board
                         = move_piece(chess_board, piece_move.from, piece_move.to)
                  ELSE /\ piece_move.is_castle
                       /\ calls[k].board = chess_board

\* A castle request of the colour to move reaches the test of the king's
\* present square: in_check is called on the board itself.
C37_Witness ==
    \E piece_move \in Requests(chess_board) :
        /\ piece_move.is_castle
        /\ Len(valid_move_in_check_calls(chess_board, piece_move,
                                         chess_board.active_color, TRUE)) = 3

\* Two squares on one rank, one file or one diagonal.
OnCommonRay(start, end) ==
    \/ start.rank = end.rank
    \/ start.file = end.file
    \/ abs_diff(start.rank, end.rank) = abs_diff(start.file, end.file)

\* The walk between two squares stays on the grid, ends after six squares at
\* most and looks at no square when the two are next to one another.
WalkIsSafe(start, end) ==
    /\ OnCommonRay(start, end)
    /\ Len(no_piece_between_squares_inspected(start, end)) <= BOARD_SIZE - 2
    /\ \A k \in DOMAIN no_piece_between_squares_inspected(start, end) :
          /\ no_piece_between_squares_inspected(start, end)[k].rank
                \in 0..(BOARD_SIZE - 1)
          /\ no_piece_between_squares_inspected(start, end)[k].file
                \in 0..(BOARD_SIZE - 1)
    /\ (abs_diff(start.rank, end.rank) <= 1 /\ abs_diff(start.file, end.file) <= 1)
          => no_piece_between_squares_inspected(start, end) = <<>>

\* C38: every call of no_piece_between_squares that valid_move makes, for the
\* sliding test or for the castle's king-to-rook test, is on two squares of
\* one rank, file or diagonal: the walk ends on the end square without
\* indexing a square off the grid, and inspects nothing for adjacent squares.
C38_WalksStayOnTheGrid ==
    \A piece_move \in Requests(chess_board) :
        \A color \in {"White", "Black"}, check_for_check \in BOOLEAN :
            \A k \in DOMAIN valid_move_walks(chess_board, piece_move, color,
                                             check_for_check) :
                WalkIsSafe(
                    valid_move_walks(chess_board, piece_move, color,
                                     check_for_check)[k].start,
                    valid_move_walks(chess_board, piece_move, color,
                                     check_for_check)[k].end)

\* A castle request of the colour to move gets both walks: from the king to
\* its destination and from the king toward the rook.
C38_Witness ==
    \E piece_move \in Requests(chess_board) :
        /\ Len(valid_move_walks(chess_board, piece_move,
                                chess_board.active_color, TRUE)) = 2
        /\ no_piece_between_squares_inspected(
               piece_move.from, castle_rook_from(piece_move)) # <<>>

\* C39 as stated: for a board with a piece on `from`, a second
\* move_piece(from, to) with the same arguments does not panic and leaves the
\* grid as the first application left it.
C39_MovePieceIdempotent ==
    \A piece_move \in Requests(chess_board) :
        LET once == move_piece(chess_board, piece_move.from, piece_move.to)
        IN  /\ ~move_piece_panics(once, piece_move.from)
            /\ move_piece(once, piece_move.from, piece_move.to).board = once.board

\* C39: for a board with a piece on `from`, move_piece(from, to) empties the
\* source square (the whole piece is lost when from = to), so a second
\* application with the same arguments panics with "No piece at start
\* location."; it changes no cell, the grid stays as the first left it.
C39_SecondMovePiecePanics ==
    \A piece_move \in Requests(chess_board) :
        LET once == move_piece(chess_board, piece_move.from, piece_move.to)
        IN  /\ ~move_piece_panics(chess_board, piece_move.from)
            /\ is_none(once.board[piece_move.from.rank][piece_move.from.file])
            /\ move_piece_panics(once, piece_move.from)

\* move_piece has been applied for an accepted move: its source square is
\* empty, and the same call again would find no piece there.
C39_Witness ==
    /\ outcome = "accepted"
    /\ chess_board.past_moves # <<>>
    /\ is_some(chess_board.board[LastMove.to.rank][LastMove.to.file])
    /\ move_piece_panics(chess_board, LastMove.from)

\* Rank `rank` of the grid holds the pieces a segment describes, each on the
\* file the segment gives it, and nothing else.
SegmentIsOnRank(self, segment, rank) ==
    \A file \in 0..(BOARD_SIZE - 1) :
        IF file + 1 \in DOMAIN RankSquares(segment)
             /\ RankSquares(segment)[file + 1] # "."
        THEN /\ is_some(self.board[rank][file])
             /\ self.board[rank][file].color
                  = (IF contains(UpperLetters, RankSquares(segment)[file + 1])
                     THEN "White" ELSE "Black")
             /\ self.board[rank][file].type
                  = symbol_piece_type(RankSquares(segment)[file + 1])
        ELSE is_none(self.board[rank][file])

\* C40: for a placement field of eight '/'-separated segments, the pieces of
\* the i-th segment stand on rank i, on the files the segment gives them, and
\* rank i holds nothing else, also when a segment describes fewer than eight
\* files.
C40_SegmentsAreRanks ==
    \A rank \in 0..(BOARD_SIZE - 1) :
        SegmentIsOnRank(chess_board, setup_fen.piece_placement[rank + 1], rank)

====
